---- MODULE Spec2Model ----
(***************************************************************************)
(* A model of the VL1 peer session of network-hypervisor/src/vl1/peer.rs:  *)
(* Peer::receive (trial authentication under the ephemeral and the static  *)
(* secret, counters, handler dispatch), Peer::next_packet_iv and           *)
(* Peer::send_udp (MTU-aware fragmentation).                               *)
(*                                                                         *)
(* Cryptography is symbolic. A byte is a record [v, m]: a plain value v    *)
(* XORed with the set m of keystream bytes laid over it, so that applying  *)
(* the same keystream twice gives the byte back and applying another one   *)
(* does not. A per-packet key is the record of everything the code mixes   *)
(* into it, and a MAC tag is the record of its key and the data it covers: *)
(* two tags are equal exactly if they were made from the same key over the *)
(* same data (no collisions, no forgery without the key).                  *)
(***************************************************************************)
EXTENDS Integers, Sequences, FiniteSets, TLC

VARIABLES
    \* ---- Peer fields (peer.rs 73-114)
    static_secret,            \* PeerSecret, set in Peer::new
    ephemeral_secret,         \* Mutex<Option<Arc<PeerSecret>>>: <<>> or <<s>>
    last_receive_time_ticks,  \* AtomicI64
    total_bytes_received,     \* AtomicU64
    packet_iv_counter,        \* AtomicU64
    \* ---- the last Peer::receive call: its arguments and what it did
    rx_in,
    rx_out,
    \* ---- callers of next_packet_iv (send_hello threads) and the values returned
    iv_pc,
    iv_id,
    iv_log,
    \* ---- the last Peer::send_udp call: its arguments, wire_send calls, result
    tx_in,
    tx_calls,
    tx_ret,
    \* ---- more Peer fields (peer.rs 73-114)
    paths,                    \* Mutex<Vec<Arc<Path>>>
    last_send_time_ticks,     \* AtomicI64
    total_bytes_sent,         \* AtomicU64
    last_forward_time_ticks,  \* AtomicI64
    total_bytes_forwarded,    \* AtomicU64
    \* ---- the last call of best_path, send, forward, send_hello or on_interval
    op_out,
    \* ---- the packets the transport may hand to receive in this run
    rx_menu,
    \* ---- threads in Peer::receive and a thread replacing the ephemeral secret
    mutex,                    \* who holds the ephemeral_secret mutex
    rcv_pc,
    rcv_snapshot,
    rcv_used,
    rep_pc,
    \* ---- a NetworkConfig, its V1 dictionary and what decoding gives
    nc,
    nc_pc,
    dict,
    decoded,
    \* ---- the last two calls of salsa_derive_per_packet_key
    kd,
    \* ---- threads calling receive, send_hello and best_path, and the peer
    \* ---- mutexes each of them holds
    lk_pc,
    lk_held,
    \* ---- the clock the callers of receive read, and threads in receive with
    \* ---- the time each was given
    rt_clock,
    rt_pc,
    rt_arg,
    rt_latest

path_vars == <<paths>>
stat_vars == <<last_send_time_ticks, total_bytes_sent, last_forward_time_ticks,
               total_bytes_forwarded>>
slot_vars == <<mutex, rcv_pc, rcv_snapshot, rcv_used, rep_pc>>
cfg_vars == <<nc, nc_pc, dict, decoded>>
key_vars == <<kd>>
lock_vars == <<lk_pc, lk_held>>
time_vars == <<rt_clock, rt_pc, rt_arg, rt_latest>>
ext_vars == <<path_vars, stat_vars, op_out, rx_menu, slot_vars, cfg_vars, key_vars,
              lock_vars, time_vars>>

vars == <<static_secret, ephemeral_secret, last_receive_time_ticks,
          total_bytes_received, packet_iv_counter, rx_in, rx_out,
          iv_pc, iv_id, iv_log, tx_in, tx_calls, tx_ret, ext_vars>>

peer_vars == <<static_secret, ephemeral_secret, last_receive_time_ticks,
               total_bytes_received>>
rx_vars == <<rx_in, rx_out>>
iv_vars == <<packet_iv_counter, iv_pc, iv_id, iv_log>>
tx_vars == <<tx_in, tx_calls, tx_ret>>

(***************************************************************************)
(* Protocol constants (vl1/protocol.rs, vl1/constants.rs, defaults.rs).    *)
(***************************************************************************)
\* Header layout: 8-byte id, 5-byte destination, 5-byte source, 1 flags byte,
\* 8-byte message authentication field; the verb is the first payload byte.
PACKET_HEADER_SIZE == 27
PACKET_VERB_INDEX == 27
PACKET_DESTINATION_INDEX == 8
ADDRESS_SIZE == 5
\* Fragment header: 8-byte id, 5-byte destination, indicator, composite, hops.
FRAGMENT_HEADER_SIZE == 16
FRAGMENT_INDICATOR == 255
PACKET_SIZE_MAX == 10032
UDP_DEFAULT_MTU == 1400

VERB_MASK == 31
VERB_FLAG_HMAC == 64
VERB_VL1_NOP == 0
VERB_VL1_HELLO == 1
VERB_VL1_ERROR == 2
VERB_VL1_OK == 3
VERB_VL1_WHOIS == 4
VERB_VL1_RENDEZVOUS == 5
VERB_VL1_ECHO == 8
VERB_VL1_PUSH_DIRECT_PATHS == 16
VERB_VL1_USER_MESSAGE == 20

\* The cipher field of the flags byte, as the value header.cipher() extracts.
CIPHER_NOCRYPT_POLY1305 == "NOCRYPT_POLY1305"
CIPHER_SALSA2012_POLY1305 == "SALSA2012_POLY1305"
CIPHER_AES_GMAC_SIV == "AES_GMAC_SIV"
CIPHER_OTHER == "OTHER"

(***************************************************************************)
(* Bit operations on u8 values.                                            *)
(***************************************************************************)
RECURSIVE BitAndN(_, _, _)
BitAndN(a, b, n) ==
    IF n = 0 THEN 0
    ELSE ((a % 2) * (b % 2)) + 2 * BitAndN(a \div 2, b \div 2, n - 1)

BitAnd(a, b) == BitAndN(a, b, 8)

SymDiff(A, B) == (A \ B) \cup (B \ A)

(***************************************************************************)
(* Option<T> as a sequence of length 0 or 1.                               *)
(***************************************************************************)
None == <<>>
Some(x) == <<x>>
IsSome(o) == Len(o) = 1
Unwrap(o) == o[1]

(***************************************************************************)
(* Symbolic bytes.                                                         *)
(***************************************************************************)
PlainByte(v) == [v |-> v, m |-> {}]
PlainBytes(vs) == [i \in 1..Len(vs) |-> PlainByte(vs[i])]
\* The u8 value a byte reads as: its plain value, or an arbitrary value that is
\* no verb when keystream is still laid over it.
GarbageValue == 255
ByteValue(b) == IF b.m = {} THEN b.v ELSE GarbageValue

(***************************************************************************)
(* Buffer<L> (vl1/buffer.rs): a length and the bytes. The leading hdr      *)
(* bytes hold a header whose fields are kept apart (PacketHeader or        *)
(* FragmentHeader, or the part of one that arrived); body holds the bytes  *)
(* after them.                                                             *)
(***************************************************************************)
BufLen(buf) == buf.hdr + Len(buf.body)

\* Buffer::as_bytes_starting_at(start): the bytes from start to the end, an
\* error if start lies beyond the end. Only called with start >= buf.hdr.
as_bytes_starting_at(buf, start) ==
    IF start <= BufLen(buf)
    THEN [ok |-> TRUE, bytes |-> SubSeq(buf.body, (start - buf.hdr) + 1, Len(buf.body))]
    ELSE [ok |-> FALSE, bytes |-> <<>>]

\* Buffer::append_bytes / append_and_init_bytes on the payload buffer: the
\* bytes are added if they fit into PACKET_SIZE_MAX, else nothing is.
BufferFits(payload, n) == Len(payload) + n <= PACKET_SIZE_MAX
append_bytes(payload, bytes) ==
    IF BufferFits(payload, Len(bytes)) THEN payload \o bytes ELSE payload

\* Buffer::u8_at(i)
u8_at(payload, i) ==
    IF i < Len(payload)
    THEN [ok |-> TRUE, v |-> ByteValue(payload[i + 1])]
    ELSE [ok |-> FALSE, v |-> 0]

(***************************************************************************)
(* PacketHeader accessors (vl1/protocol.rs).                               *)
(***************************************************************************)
\* A faulty variant of FlagsHideHops: the hop count stays in.
FlagsKeepHops(flags) == flags

\* flags & HEADER_FLAGS_FIELD_MASK_HIDE_HOPS: the hop count is cleared.
FlagsHideHops(flags) == [flags EXCEPT !.hops = 0]
HeaderCipher(header) == header.flags_cipher_hops.cipher
\* PacketHeader::aad_bytes: destination, source, flags without the hop bits.
aad_bytes(header) ==
    [dest |-> header.dest, src |-> header.src,
     flags |-> FlagsHideHops(header.flags_cipher_hops)]

(***************************************************************************)
(* Salsa20/12 and Poly1305 per-packet keying (peer.rs 116-146).            *)
(***************************************************************************)
\* A faulty variant of salsa_derive_per_packet_key: the packet id, the
\* destination and the source are left out of the key.
SalsaKeyWithoutHeaderBytes(key, header, packet_size) ==
    [alg |-> "salsa", secret |-> key, id |-> 0, dest |-> "", src |-> "",
     flags |-> [header.flags_cipher_hops EXCEPT !.hops = 0],
     sz |-> packet_size % 65536]

\* The key XORed with header bytes 0..17 (id, destination, source), with the
\* flags byte less its hop bits, and with the low 16 bits of the packet size.
salsa_derive_per_packet_key(key, header, packet_size) ==
    [alg |-> "salsa", secret |-> key, id |-> header.id, dest |-> header.dest,
     src |-> header.src, flags |-> FlagsHideHops(header.flags_cipher_hops),
     sz |-> packet_size % 65536]

\* Salsa keyed with the per-packet key and the packet id; the first 32 bytes of
\* keystream become the Poly1305 key, so both are determined by the key.
salsa_poly_create(secret, header, packet_size) ==
    LET key == salsa_derive_per_packet_key(secret.secret, header, packet_size)
    IN  [salsa |-> [k |-> key, pos |-> 0], poly |-> [k |-> key, data |-> <<>>]]

\* One byte under keystream byte number pos of key k.
CryptByte(b, k, pos) == [b EXCEPT !.m = SymDiff(b.m, {<<k, pos>>})]
\* Salsa::crypt / AesGmacSiv::decrypt: a stream cipher, position by position.
StreamCrypt(stream, bytes) ==
    [i \in 1..Len(bytes) |-> CryptByte(bytes[i], stream.k, stream.pos + i)]
StreamAdvance(stream, n) == [stream EXCEPT !.pos = stream.pos + n]

PolyUpdate(poly, bytes) == [poly EXCEPT !.data = poly.data \o bytes]
\* Poly1305::finish()[0..8]
PolyFinish(poly) == [k |-> poly.k, data |-> poly.data]

(***************************************************************************)
(* AES-GMAC-SIV (aes_gmac_siv crate), keyed from the secret by the pool    *)
(* factory (peer.rs 27-39, 156-158).                                       *)
(***************************************************************************)
SivKey(secret, aad) ==
    [alg |-> "siv", secret |-> secret.secret, id |-> 0, dest |-> aad.dest,
     src |-> aad.src, flags |-> aad.flags, sz |-> 0]
\* The tag over the AAD and the plaintext, and its first 64 bits.
SivTag(key, plaintext) == [k |-> key, data |-> plaintext]
SivTagId(tag) == Len(tag.data)
\* PacketHeader::aes_gmac_siv_tag: the id and the message_auth field.
aes_gmac_siv_tag(header) == [id |-> header.id, auth |-> header.message_auth]
\* decrypt_init + decrypt_set_aad
AesDecryptInit(secret, header) ==
    [k |-> SivKey(secret, aad_bytes(header)), pos |-> 0,
     tag |-> aes_gmac_siv_tag(header)]
\* decrypt_finish: the tag of what was decrypted is the tag given.
AesDecryptFinish(aes, plaintext) ==
    LET t == SivTag(aes.k, plaintext)
    IN  aes.tag = [id |-> SivTagId(t), auth |-> t]

(***************************************************************************)
(* Peer::receive (peer.rs 203-305).                                        *)
(***************************************************************************)
\* The payload bytes of trailing fragment i: those after its FragmentHeader,
\* or none when the slot is None or the buffer is shorter than the header
\* (the Err of as_bytes_starting_at is discarded by the code).
FragmentPayload(fragments, i) ==
    IF IsSome(fragments[i])
    THEN as_bytes_starting_at(Unwrap(fragments[i]), FRAGMENT_HEADER_SIZE)
    ELSE [ok |-> FALSE, bytes |-> <<>>]

\* peer.rs 215-217: every fragment's payload appended to the payload as it is.
RECURSIVE AppendFragments(_, _, _)
AppendFragments(payload, fragments, i) ==
    IF i > Len(fragments) THEN payload
    ELSE LET f == FragmentPayload(fragments, i)
         IN  AppendFragments(IF f.ok THEN append_bytes(payload, f.bytes) ELSE payload,
                             fragments, i + 1)

\* peer.rs 237-243 and 253-256: one chunk through the stream cipher. st is
\* [stream, poly, payload]; Poly1305 takes the chunk as received (peer.rs 236,
\* 240); the bytes are decrypted into the payload only if they fit (then the
\* keystream advances).
CryptChunk(st, bytes, with_poly) ==
    [stream |-> IF BufferFits(st.payload, Len(bytes))
                THEN StreamAdvance(st.stream, Len(bytes)) ELSE st.stream,
     poly |-> IF with_poly THEN PolyUpdate(st.poly, bytes) ELSE st.poly,
     payload |-> IF BufferFits(st.payload, Len(bytes))
                 THEN st.payload \o StreamCrypt(st.stream, bytes) ELSE st.payload]

\* peer.rs 238-243 and 254-256: the loop over the fragments. (A value that is
\* used several times is bound as the element of a singleton set, here and
\* below, so that it is computed once.)
RECURSIVE CryptFragments(_, _, _, _)
CryptFragments(st, fragments, i, with_poly) ==
    IF i > Len(fragments) THEN st
    ELSE CHOOSE r \in
           { CryptFragments(IF f.ok THEN CryptChunk(s, f.bytes, with_poly) ELSE s,
                            fragments, i + 1, with_poly) :
               f \in {FragmentPayload(fragments, i)}, s \in {st} } : TRUE

\* A faulty variant of IsHelloVerb: the verb is not looked at.
AnyVerbIsHello(b) == TRUE

\* peer.rs 213: (packet_frag0_payload_bytes[0] & VERB_MASK) == VERB_VL1_HELLO
IsHelloVerb(b) == BitAnd(ByteValue(b), VERB_MASK) = VERB_VL1_HELLO

\* The result of one trial: "break" if the tag computed equals the tag carried.
TrialVerdict(computed, carried, payload) ==
    [kind |-> IF computed = carried THEN "break" ELSE "fail", payload |-> payload]

\* peer.rs 212-232: one trial in cleartext mode. Indexing byte 0 of an empty
\* slice panics.
TrialNoCrypt(secret, header, packet, fragments, frag0, payload) ==
    IF Len(frag0) = 0 THEN [kind |-> "panic", payload |-> payload]
    ELSE IF IsHelloVerb(frag0[1])
    THEN CHOOSE r \in
           { TrialVerdict(PolyFinish(PolyUpdate(
                              salsa_poly_create(secret, header, BufLen(packet)).poly, p)),
                          header.message_auth, p) :
               p \in {AppendFragments(append_bytes(payload, frag0), fragments, 1)} } : TRUE
    ELSE [kind |-> "return", payload |-> payload]

\* peer.rs 234-247
TrialSalsa(secret, header, packet, fragments, frag0, payload) ==
    CHOOSE r \in
      { TrialVerdict(PolyFinish(st.poly), header.message_auth, st.payload) :
          st \in { CryptFragments(
                     CryptChunk([stream |-> sp.salsa, poly |-> sp.poly, payload |-> payload],
                                frag0, TRUE),
                     fragments, 1, TRUE) :
                   sp \in {salsa_poly_create(secret, header, BufLen(packet))} } } : TRUE

\* peer.rs 249-260
TrialAes(secret, header, packet, fragments, frag0, payload) ==
    CHOOSE r \in
      { [kind |-> IF AesDecryptFinish(aes, SubSeq(st.payload, Len(payload) + 1, Len(st.payload)))
                  THEN "break" ELSE "fail",
         payload |-> st.payload] :
          aes \in {AesDecryptInit(secret, header)},
          st \in { CryptFragments(
                     CryptChunk([stream |-> [k |-> a.k, pos |-> 0],
                                 poly |-> [k |-> a.k, data |-> <<>>], payload |-> payload],
                                frag0, FALSE),
                     fragments, 1, FALSE) :
                   a \in {AesDecryptInit(secret, header)} } } : TRUE

\* peer.rs 211-266: the match on the cipher, for one secret of the trial list.
Trial(secret, header, packet, fragments, frag0, payload) ==
    CASE HeaderCipher(header) = CIPHER_NOCRYPT_POLY1305 ->
            TrialNoCrypt(secret, header, packet, fragments, frag0, payload)
      [] HeaderCipher(header) = CIPHER_SALSA2012_POLY1305 ->
            TrialSalsa(secret, header, packet, fragments, frag0, payload)
      [] HeaderCipher(header) = CIPHER_AES_GMAC_SIV ->
            TrialAes(secret, header, packet, fragments, frag0, payload)
      [] OTHER -> [kind |-> "return", payload |-> payload]

\* peer.rs 210: [ephemeral or else static, static]
TrialList(ephemeral, static) ==
    << IF IsSome(ephemeral) THEN Unwrap(ephemeral) ELSE static, static >>

\* A faulty variant of IsStaticSecret: the comparison never succeeds.
NeverStaticSecret(secret, static) == FALSE

\* A faulty variant of IsStaticSecret: the comparison is inverted.
IsNotStaticSecret(secret, static) == secret.addr # static.addr

\* peer.rs 268: (secret as *const PeerSecret) == (&self.static_secret as *const PeerSecret)
IsStaticSecret(secret, static) == secret.addr = static.addr

\* A faulty variant of PayloadAfterFailedTrial: the buffer is left as it is.
PayloadKeptAfterFailedTrial(payload) == payload

\* peer.rs 276: payload.set_size(0) after a failed trial under the ephemeral
\* secret.
PayloadAfterFailedTrial(payload) == <<>>

\* peer.rs 210-277: the loop. Gives [kind, forward_secrecy, payload, trials,
\* secret]; kind is "break" (authenticated under secret), "return", "panic",
\* or "end" when the list is exhausted without a break. trials counts the
\* authentication attempts made.
RECURSIVE TrialLoop(_, _, _, _, _, _, _, _, _)
TrialLoop(list, i, static, header, packet, fragments, frag0, forward_secrecy, payload) ==
    IF i > Len(list)
    THEN [kind |-> "end", forward_secrecy |-> forward_secrecy, payload |-> payload,
          trials |-> i - 1, secret |-> None]
    ELSE CHOOSE r \in
      { IF t.kind = "break"
        THEN [kind |-> "break", forward_secrecy |-> forward_secrecy,
              payload |-> t.payload, trials |-> i, secret |-> Some(list[i])]
        ELSE IF t.kind = "fail" /\ ~IsStaticSecret(list[i], static)
        THEN \* forward_secrecy = false; payload.set_size(0)
             TrialLoop(list, i + 1, static, header, packet, fragments, frag0, FALSE,
                       PayloadAfterFailedTrial(t.payload))
        ELSE [kind |-> IF t.kind = "fail" THEN "return" ELSE t.kind,
              forward_secrecy |-> forward_secrecy, payload |-> t.payload,
              trials |-> IF t.kind = "fail" THEN i ELSE i - 1, secret |-> None] :
          t \in {Trial(list[i], header, packet, fragments, frag0, payload)} } : TRUE

\* peer.rs 290-301: the built-in handler the match on the verb selects.
Vl1Handler(verb) ==
    CASE verb = VERB_VL1_HELLO -> "receive_hello"
      [] verb = VERB_VL1_ERROR -> "receive_error"
      [] verb = VERB_VL1_OK -> "receive_ok"
      [] verb = VERB_VL1_WHOIS -> "receive_whois"
      [] verb = VERB_VL1_RENDEZVOUS -> "receive_rendezvous"
      [] verb = VERB_VL1_ECHO -> "receive_echo"
      [] verb = VERB_VL1_PUSH_DIRECT_PATHS -> "receive_push_direct_paths"
      [] verb = VERB_VL1_USER_MESSAGE -> "receive_user_message"
      [] OTHER -> "none"

\* peer.rs 286-303: the handler calls made for an authenticated payload;
\* ph_consumes is what ph.handle_packet returns.
Dispatch(payload, forward_secrecy, ph_consumes) ==
    LET verb == u8_at(payload, 0)
        call(h) == [handler |-> h, forward_secrecy |-> forward_secrecy,
                    verb |-> verb.v, payload |-> payload]
    IN  IF ~verb.ok THEN <<>>
        ELSE IF ph_consumes \/ Vl1Handler(verb.v) = "none"
        THEN << call("handle_packet") >>
        ELSE << call("handle_packet"), call(Vl1Handler(verb.v)) >>

\* A faulty variant of ReceivedSize: the packet header is not counted.
ReceivedSizeWithoutHeader(payload) == Len(payload)

\* peer.rs 284: (payload.len() + PACKET_HEADER_SIZE) as u64
ReceivedSize(payload) == Len(payload) + PACKET_HEADER_SIZE

\* peer.rs 283-303: after the loop. r is what the loop gave.
AfterLoop(r, last_time, total, in) ==
    IF r.kind \in {"break", "end"}
    THEN [outcome |-> "authenticated", trials |-> r.trials,
          forward_secrecy |-> r.forward_secrecy, payload |-> r.payload,
          calls |-> Dispatch(r.payload, r.forward_secrecy, in.ph_consumes),
          secret |-> r.secret,
          time |-> in.time_ticks,
          total |-> total + ReceivedSize(r.payload)]
    ELSE [outcome |-> IF r.kind = "panic" THEN "panic" ELSE "dropped",
          trials |-> r.trials, forward_secrecy |-> TRUE, payload |-> <<>>,
          calls |-> <<>>, secret |-> None, time |-> last_time, total |-> total]

\* The whole of Peer::receive as a function of the peer and the arguments:
\* what it leaves in the counters, and what it did.
ReceiveResult(ephemeral, static, last_time, total, in) ==
    IF ~as_bytes_starting_at(in.packet, PACKET_VERB_INDEX).ok
    THEN [outcome |-> "short", trials |-> 0, forward_secrecy |-> TRUE,
          payload |-> <<>>, calls |-> <<>>, secret |-> None,
          time |-> last_time, total |-> total]
    ELSE CHOOSE res \in
      { AfterLoop(r, last_time, total, in) :
          r \in { TrialLoop(TrialList(ephemeral, static), 1, static, in.header,
                            in.packet, in.fragments,
                            as_bytes_starting_at(in.packet, PACKET_VERB_INDEX).bytes,
                            TRUE, <<>>) } } : TRUE

(***************************************************************************)
(* Bounds of the model.                                                    *)
(***************************************************************************)
\* Receive is called while total_bytes_received is at most this.
MaxTotalBytes == 27
\* time_ticks arguments are drawn from 1..MaxTime.
MaxTime == 2

(***************************************************************************)
(* The peer after Peer::new (peer.rs 154-188).                             *)
(***************************************************************************)
StaticKey == "static key"
EphemeralKey == "ephemeral key"
ForeignKey == "foreign key"
LocalAddress == "local address"
PeerAddress == "peer address"

\* A faulty variant of NewStaticSecret: the creation time is that of an
\* ephemeral secret made at time 0.
NewStaticSecretCreatedAtZero ==
    [addr |-> "static_secret", create_time_ticks |-> 0, secret |-> StaticKey]

\* addr stands for the address of the PeerSecret in memory.
NewStaticSecret == [addr |-> "static_secret", create_time_ticks |-> -1, secret |-> StaticKey]

PeerInit ==
    /\ static_secret = NewStaticSecret
    /\ ephemeral_secret = None
    /\ last_receive_time_ticks = 0
    /\ total_bytes_received = 0
    /\ paths = <<>>
    /\ last_send_time_ticks = 0
    /\ total_bytes_sent = 0
    /\ last_forward_time_ticks = 0
    /\ total_bytes_forwarded = 0

(***************************************************************************)
(* The packets the transport hands to Peer::receive: sealed by a holder of *)
(* some secret (the static one, the ephemeral one, or one this peer does   *)
(* not have) in one of the cipher modes, then cut into a head buffer and   *)
(* trailing fragments, possibly with the tag changed in transit.           *)
(***************************************************************************)
RxPlaintexts ==
    { <<>>, <<VERB_VL1_HELLO>>, <<VERB_VL1_HELLO + VERB_FLAG_HMAC, 7>>, <<VERB_VL1_ECHO, 7>>,
      <<VERB_VL1_OK, VERB_VL1_HELLO>> }
RxCiphers ==
    { CIPHER_NOCRYPT_POLY1305, CIPHER_SALSA2012_POLY1305, CIPHER_AES_GMAC_SIV, CIPHER_OTHER }
RxLayouts == { "whole", "split", "gap", "runt", "truncated" }
RxSizeRules == { "head", "total" }

\* The bytes of the head buffer after the header, for a wire body w.
LayoutHead(layout, w) ==
    CASE layout \in {"split", "gap"} -> SubSeq(w, 1, 1)
      [] layout = "truncated" -> <<>>
      [] OTHER -> w
LayoutPacket(layout, w) ==
    [hdr |-> IF layout = "truncated" THEN PACKET_VERB_INDEX - 1 ELSE PACKET_VERB_INDEX,
     body |-> LayoutHead(layout, w)]
LayoutFragments(layout, w) ==
    LET rest == Some([hdr |-> FRAGMENT_HEADER_SIZE, body |-> SubSeq(w, 2, Len(w))])
    IN  CASE layout = "split" -> << rest >>
          [] layout = "gap" -> << None, rest >>
          [] layout = "runt" -> << Some([hdr |-> FRAGMENT_HEADER_SIZE - 6, body |-> <<>>]) >>
          [] OTHER -> <<>>
LayoutFits(layout, pt) ==
    /\ layout \in {"split", "gap"} => Len(pt) >= 2
    /\ layout = "truncated" => pt = <<>>

NoKey ==
    [alg |-> "none", secret |-> "", id |-> 0, dest |-> "", src |-> "",
     flags |-> [cipher |-> CIPHER_OTHER, hops |-> 0], sz |-> 0]

\* The header and wire body a sender holding secret key makes of plaintext pt;
\* size is the packet size it keys Salsa with.
SealPacket(cipher, key, pt, size, tampered) ==
    LET h0 == [id |-> 7, dest |-> LocalAddress, src |-> PeerAddress,
               flags_cipher_hops |-> [cipher |-> cipher, hops |-> 0],
               message_auth |-> [k |-> NoKey, data |-> <<>>]]
        sk == salsa_derive_per_packet_key(key, h0, size)
        ak == SivKey([secret |-> key], aad_bytes(h0))
        k == IF cipher = CIPHER_AES_GMAC_SIV THEN ak ELSE sk
        plain == PlainBytes(pt)
        w == IF cipher \in {CIPHER_SALSA2012_POLY1305, CIPHER_AES_GMAC_SIV}
             THEN StreamCrypt([k |-> k, pos |-> 0], plain) ELSE plain
        tag == IF cipher = CIPHER_AES_GMAC_SIV THEN SivTag(ak, plain)
               ELSE [k |-> sk, data |-> w]
        sent == IF tampered THEN [tag EXCEPT !.data = Append(@, PlainByte(0))] ELSE tag
    IN  [header |-> [h0 EXCEPT !.message_auth = sent,
                               !.id = IF cipher = CIPHER_AES_GMAC_SIV THEN SivTagId(tag) ELSE 7],
         body |-> w]

RxChoices ==
    { ch \in [cipher : RxCiphers, key : {StaticKey, EphemeralKey, ForeignKey},
              pt : RxPlaintexts, layout : RxLayouts, rule : RxSizeRules,
              tampered : BOOLEAN] : LayoutFits(ch.layout, ch.pt) }
\* A short menu: whole packets that carry a HELLO, with the tag as sealed.
RxFewChoices ==
    { ch \in RxChoices :
        /\ ch.layout = "whole"
        /\ ch.rule = "head"
        /\ ~ch.tampered
        /\ ch.pt = <<VERB_VL1_HELLO>>
        /\ ch.cipher \in {CIPHER_NOCRYPT_POLY1305, CIPHER_SALSA2012_POLY1305} }
RxMenu(menu) ==
    CASE menu = "all" -> RxChoices
      [] menu = "salsa" -> { ch \in RxChoices :
                               ch.cipher = CIPHER_SALSA2012_POLY1305 /\ ~ch.tampered }
      [] OTHER -> RxFewChoices

RxInput(ch, t, ph) ==
    LET size == IF ch.rule = "head"
                THEN PACKET_VERB_INDEX + Len(LayoutHead(ch.layout, ch.pt))
                ELSE PACKET_VERB_INDEX + Len(ch.pt)
    IN  CHOOSE in \in
          { [time_ticks |-> t, header |-> p.header,
             packet |-> LayoutPacket(ch.layout, p.body),
             fragments |-> LayoutFragments(ch.layout, p.body), ph_consumes |-> ph,
             tamper |-> "none"] :
              p \in {SealPacket(ch.cipher, ch.key, ch.pt, size, ch.tampered)} } : TRUE

\* No receive call is in progress.
RxNoInput ==
    [time_ticks |-> 0,
     header |-> [id |-> 0, dest |-> "", src |-> "",
                 flags_cipher_hops |-> [cipher |-> CIPHER_OTHER, hops |-> 0],
                 message_auth |-> [k |-> NoKey, data |-> <<>>]],
     packet |-> [hdr |-> 0, body |-> <<>>], fragments |-> <<>>, ph_consumes |-> FALSE,
     tamper |-> "none"]

\* What may happen to a packet between its sender and Peer::receive: nothing,
\* or a change of one field of its header (the packet id, the destination,
\* the source, the cipher bits or the hop bits of the flags byte, the
\* message_auth tag) or of the first byte after the header.
RxTamperKinds ==
    { "none", "id", "dest", "src", "cipher to nocrypt", "cipher to aes", "hops",
      "tag", "body" }
TamperInput(in, kind) ==
    LET h == in.header
        changed ==
          CASE kind = "id" -> [in EXCEPT !.header.id = h.id + 1]
            [] kind = "dest" -> [in EXCEPT !.header.dest = "another address"]
            [] kind = "src" -> [in EXCEPT !.header.src = "another address"]
            [] kind = "cipher to nocrypt" ->
                  [in EXCEPT !.header.flags_cipher_hops.cipher = CIPHER_NOCRYPT_POLY1305]
            [] kind = "cipher to aes" ->
                  [in EXCEPT !.header.flags_cipher_hops.cipher = CIPHER_AES_GMAC_SIV]
            [] kind = "hops" ->
                  [in EXCEPT !.header.flags_cipher_hops.hops = h.flags_cipher_hops.hops + 1]
            [] kind = "tag" ->
                  [in EXCEPT !.header.message_auth.data = Append(@, PlainByte(0))]
            [] kind = "body" /\ Len(in.packet.body) >= 1 ->
                  [in EXCEPT !.packet.body[1].v = (@ + 1) % 256]
            [] OTHER -> in
    IN  [changed EXCEPT !.tamper = IF changed = in THEN "none" ELSE kind]
\* The changes in transit each menu of packets comes with.
RxTampers(menu) == IF menu = "salsa" THEN RxTamperKinds ELSE {"none"}
RxNoOutput ==
    [outcome |-> "none", trials |-> 0, forward_secrecy |-> TRUE, payload |-> <<>>,
     calls |-> <<>>, secret |-> None, old_time |-> 0, old_total |-> 0,
     old_ephemeral |-> None]

(***************************************************************************)
(* Actions on the receive side.                                            *)
(***************************************************************************)
Receive ==
    /\ rx_out.outcome = "none"
    /\ op_out.op = "none"
    /\ total_bytes_received <= MaxTotalBytes
    /\ \E ch \in RxMenu(rx_menu), t \in 1..MaxTime, ph \in BOOLEAN,
          kind \in RxTampers(rx_menu) :
       \E in \in {TamperInput(RxInput(ch, t, ph), kind)} :
       \E r \in {ReceiveResult(ephemeral_secret, static_secret,
                               last_receive_time_ticks, total_bytes_received, in)} :
           /\ last_receive_time_ticks' = r.time
           /\ total_bytes_received' = r.total
           /\ rx_in' = in
           /\ rx_out' = [outcome |-> r.outcome, trials |-> r.trials,
                         forward_secrecy |-> r.forward_secrecy, payload |-> r.payload,
                         calls |-> r.calls, secret |-> r.secret,
                         old_time |-> last_receive_time_ticks,
                         old_total |-> total_bytes_received,
                         old_ephemeral |-> ephemeral_secret]
    /\ UNCHANGED <<static_secret, ephemeral_secret, iv_vars, tx_vars, ext_vars>>

\* The call is over: its arguments and locals are gone.
ReceiveReturn ==
    /\ rx_out.outcome # "none"
    /\ rx_in' = RxNoInput
    /\ rx_out' = RxNoOutput
    /\ UNCHANGED <<peer_vars, iv_vars, tx_vars, ext_vars>>

\* The ephemeral secret slot is filled once an OK(HELLO) acknowledges the
\* offered key pair; receive_ok (peer.rs 490-492) has no body yet.
InstallEphemeral ==
    /\ ephemeral_secret = None
    /\ ephemeral_secret' = Some([addr |-> "ephemeral_secret",
                                 create_time_ticks |-> last_receive_time_ticks,
                                 secret |-> EphemeralKey])
    /\ UNCHANGED <<static_secret, last_receive_time_ticks, total_bytes_received,
                   rx_vars, iv_vars, tx_vars, ext_vars>>

(***************************************************************************)
(* Specification of the receive side.                                      *)
(***************************************************************************)
\* No other call is in progress; the transport may hand over any packet.
NoOp == [op |-> "none", outcome |-> "none", ret |-> None, old_paths |-> <<>>]
\* Nobody holds the ephemeral_secret mutex.
NoHolder == [holder |-> "none", id |-> 0]
SlotIdle ==
    /\ mutex = NoHolder
    /\ rcv_pc = <<>>
    /\ rcv_snapshot = <<>>
    /\ rcv_used = <<>>
    /\ rep_pc = "idle"
CfgIdle ==
    /\ nc = None
    /\ nc_pc = "none"
    /\ dict = None
    /\ decoded = None
\* salsa_derive_per_packet_key has not been called on its own.
KeyIdle == kd = <<>>
\* No thread is in a call that takes a peer mutex.
LockIdle ==
    /\ lk_pc = <<>>
    /\ lk_held = <<>>
\* No thread is in a receive call that is followed step by step.
TimeIdle ==
    /\ rt_clock = 0
    /\ rt_pc = <<>>
    /\ rt_arg = <<>>
    /\ rt_latest = 0
ExtIdle ==
    /\ op_out = NoOp
    /\ rx_menu = "all"
    /\ SlotIdle
    /\ CfgIdle
    /\ KeyIdle
    /\ LockIdle
    /\ TimeIdle

\* No thread is sending; no packet is being sent.
IvIdle ==
    /\ packet_iv_counter = 0
    /\ iv_pc = <<>>
    /\ iv_id = <<>>
    /\ iv_log = <<>>
TxIdle ==
    /\ tx_in = [id |-> 0, dest |-> "", size |-> 0, fail_at |-> 0]
    /\ tx_calls = <<>>
    /\ tx_ret = "none"

RxInit ==
    /\ PeerInit
    /\ ExtIdle
    /\ rx_in = RxNoInput
    /\ rx_out = RxNoOutput
    /\ IvIdle
    /\ TxIdle

RxNext ==
    \/ Receive
    \/ ReceiveReturn
    \/ InstallEphemeral

SpecRecv == RxInit /\ [][RxNext]_vars

(***************************************************************************)
(* Properties of Peer::receive.                                            *)
(***************************************************************************)
RxCalled == rx_out.outcome # "none"
RxFrag0 == as_bytes_starting_at(rx_in.packet, PACKET_VERB_INDEX)
RxCountersUnchanged ==
    /\ last_receive_time_ticks = rx_out.old_time
    /\ total_bytes_received = rx_out.old_total
\* The packet of the call passes the authentication check of its cipher mode
\* under the given secret.
RxAuthenticatesUnder(secret) ==
    /\ RxFrag0.ok
    /\ Trial(secret, rx_in.header, rx_in.packet, rx_in.fragments, RxFrag0.bytes, <<>>).kind
          = "break"
RxAuthenticatesUnderEphemeral ==
    /\ IsSome(rx_out.old_ephemeral)
    /\ RxAuthenticatesUnder(Unwrap(rx_out.old_ephemeral))
RxAuthenticatesUnderStatic == RxAuthenticatesUnder(static_secret)

\* C1: a handler (the higher-layer one or a built-in VL1 one) is invoked only
\* for a packet that authenticates under the installed ephemeral secret or
\* under the static secret; for a packet that authenticates under neither, no
\* handler is invoked and last_receive_time_ticks and total_bytes_received
\* keep their values.
C1_HandlersOnlyIfAuthenticated ==
    RxCalled =>
        /\ rx_out.calls # <<>> =>
              (RxAuthenticatesUnderEphemeral \/ RxAuthenticatesUnderStatic)
        /\ ~(RxAuthenticatesUnderEphemeral \/ RxAuthenticatesUnderStatic) =>
              (rx_out.calls = <<>> /\ RxCountersUnchanged)

\* An ephemeral secret is installed, both trials were made and both failed.
C1_Witness ==
    /\ RxCalled
    /\ IsSome(rx_out.old_ephemeral)
    /\ rx_out.trials = 2
    /\ rx_out.outcome = "dropped"
    /\ HeaderCipher(rx_in.header) = CIPHER_SALSA2012_POLY1305
    /\ rx_in.header.message_auth.k.secret = ForeignKey

\* C2: the handler gets forward_secrecy = TRUE when an ephemeral secret is
\* installed and authenticates the packet, and forward_secrecy = FALSE when
\* only the static secret authenticates it, whatever the ephemeral slot holds
\* (also when it is empty).
C2_ForwardSecrecy ==
    (RxCalled /\ rx_out.calls # <<>>) =>
        /\ RxAuthenticatesUnderEphemeral =>
              \A i \in 1..Len(rx_out.calls) : rx_out.calls[i].forward_secrecy = TRUE
        /\ (RxAuthenticatesUnderStatic /\ ~RxAuthenticatesUnderEphemeral) =>
              \A i \in 1..Len(rx_out.calls) : rx_out.calls[i].forward_secrecy = FALSE

\* C3: a NOCRYPT-POLY1305 packet whose verb is not HELLO is dropped before any
\* authentication attempt: no handler is invoked and no counter changes,
\* whatever secrets are installed and whatever its message_auth field holds.
RxCleartextNonHello ==
    /\ RxCalled
    /\ HeaderCipher(rx_in.header) = CIPHER_NOCRYPT_POLY1305
    /\ RxFrag0.ok
    /\ Len(RxFrag0.bytes) >= 1
    /\ BitAnd(ByteValue(RxFrag0.bytes[1]), VERB_MASK) # VERB_VL1_HELLO
C3_CleartextNonHelloDropped ==
    RxCleartextNonHello =>
        /\ rx_out.outcome = "dropped"
        /\ rx_out.trials = 0
        /\ rx_out.calls = <<>>
        /\ RxCountersUnchanged

\* A cleartext ECHO whose tag is the right one under the static secret.
C3_Witness ==
    /\ RxCleartextNonHello
    /\ ByteValue(RxFrag0.bytes[1]) = VERB_VL1_ECHO
    /\ rx_in.fragments = <<>>
    /\ rx_in.header.message_auth =
          PolyFinish(PolyUpdate(salsa_poly_create(static_secret, rx_in.header,
                                                  BufLen(rx_in.packet)).poly,
                                RxFrag0.bytes))

\* The size of the packet as sent: the head buffer and the payload bytes that
\* the trailing fragments carry after their fragment headers.
RECURSIVE FragmentsPayloadSize(_, _)
FragmentsPayloadSize(fragments, i) ==
    IF i > Len(fragments) THEN 0
    ELSE (IF IsSome(fragments[i]) /\ BufLen(Unwrap(fragments[i])) >= FRAGMENT_HEADER_SIZE
          THEN BufLen(Unwrap(fragments[i])) - FRAGMENT_HEADER_SIZE ELSE 0)
         + FragmentsPayloadSize(fragments, i + 1)
RxPacketSize == BufLen(rx_in.packet) + FragmentsPayloadSize(rx_in.fragments, 1)

RxMalformed ==
    /\ RxCalled
    /\ \/ BufLen(rx_in.packet) <= PACKET_VERB_INDEX
       \/ HeaderCipher(rx_in.header) \notin
             {CIPHER_NOCRYPT_POLY1305, CIPHER_SALSA2012_POLY1305, CIPHER_AES_GMAC_SIV}
C5_MalformedDroppedSilently ==
    RxMalformed =>
        /\ rx_out.outcome \in {"short", "dropped"}
        /\ rx_out.calls = <<>>
        /\ RxCountersUnchanged

(***************************************************************************)
(* Peer::next_packet_iv (peer.rs 196-198) and its callers: threads running *)
(* send_hello, each drawing the id of its packet (peer.rs 403-405).        *)
(***************************************************************************)
\* The number of values of the packet IV counter: stands for 2^64.
IvModulus == 16
\* The number of threads sending concurrently on the peer.
NumThreads == 3
Threads == 1..NumThreads

\* Faulty variants of FetchAddOne: the counter counts down; the counter is
\* read but not advanced.
FetchSubOne(counter) == (counter + IvModulus - 1) % IvModulus
FetchOnly(counter) == counter

\* peer.rs 197: AtomicU64::fetch_add(1): the value stored; the addition wraps
\* around.
FetchAddOne(counter) == (counter + 1) % IvModulus

\* One atomic step of thread t: the counter's value is returned and the
\* counter advanced.
NextPacketIv(t) ==
    /\ iv_pc[t] = "start"
    /\ iv_id' = [iv_id EXCEPT ![t] = packet_iv_counter]
    /\ iv_log' = Append(iv_log, packet_iv_counter)
    /\ packet_iv_counter' = FetchAddOne(packet_iv_counter)
    /\ iv_pc' = [iv_pc EXCEPT ![t] = "have_id"]
    /\ UNCHANGED <<peer_vars, rx_vars, tx_vars, ext_vars>>

\* Thread t lays its id into the header of its packet and sends it
\* (peer.rs 404-473).
HelloSend(t) ==
    /\ iv_pc[t] = "have_id"
    /\ iv_pc' = [iv_pc EXCEPT ![t] = "sent"]
    /\ UNCHANGED <<peer_vars, rx_vars, tx_vars, packet_iv_counter, iv_id, iv_log, ext_vars>>

\* peer.rs 183: the counter starts at next_u64_secure(), any 64-bit value.
IvInit ==
    /\ PeerInit
    /\ ExtIdle
    /\ rx_in = RxNoInput
    /\ rx_out = RxNoOutput
    /\ TxIdle
    /\ packet_iv_counter \in 0..(IvModulus - 1)
    /\ iv_pc = [t \in Threads |-> "start"]
    /\ iv_id = [t \in Threads |-> 0]
    /\ iv_log = <<>>

IvNext == \E t \in Threads : NextPacketIv(t) \/ HelloSend(t)

SpecIv == IvInit /\ [][IvNext]_vars

\* C6 as stated: the values next_packet_iv returns are strictly increasing in
\* the order of the calls, whatever value the counter started from.
C6_StrictlyIncreasing ==
    \A i, j \in 1..Len(iv_log) : i < j => iv_log[i] < iv_log[j]

\* C6 amended: each value returned is the one before it plus one, modulo the
\* size of the counter; the values are strictly increasing as long as the
\* counter has not wrapped around, that is while the first value plus the
\* number of calls made does not exceed the size of the counter.
C6_ConsecutiveModulo ==
    /\ \A i \in 1..(Len(iv_log) - 1) : iv_log[i + 1] = (iv_log[i] + 1) % IvModulus
    /\ (Len(iv_log) >= 1 /\ iv_log[1] + Len(iv_log) <= IvModulus) =>
          \A i, j \in 1..Len(iv_log) : i < j => iv_log[i] < iv_log[j]

\* The counter wrapped between two calls.
C6_Witness ==
    /\ Len(iv_log) >= 3
    /\ \E i \in 1..(Len(iv_log) - 1) : iv_log[i] = IvModulus - 1 /\ iv_log[i + 1] = 0

\* C7: the packet ids of sends made concurrently by different threads are
\* pairwise distinct.
C7_DistinctPacketIds ==
    \A t1, t2 \in Threads :
        (t1 # t2 /\ iv_pc[t1] # "start" /\ iv_pc[t2] # "start") => iv_id[t1] # iv_id[t2]

\* Every thread has drawn its id, the last one while the others were still
\* between drawing the id and sending.
C7_Witness ==
    /\ \A t \in Threads : iv_pc[t] # "start"
    /\ Cardinality({t \in Threads : iv_pc[t] = "have_id"}) >= 2
    /\ Cardinality({iv_id[t] : t \in Threads}) = NumThreads

(***************************************************************************)
(* Peer::send_udp (peer.rs 316-359). A packet is given by its id, its      *)
(* destination and its size; a wire_send call is recorded with the         *)
(* fragment header it carries (none for the head or the whole packet) and  *)
(* the range [from, to) of the packet's bytes it sends. The call number    *)
(* fail_at of an invocation returns false (0: every call returns true).    *)
(***************************************************************************)
\* wire_send calls 1..MaxFailAt of an invocation may be the one that fails.
MaxFailAt == 3
TxPacketIds == {5, 9}

\* ci.wire_send: the result of call number n.
WireSendOk(in, n) == n # in.fail_at

\* peer.rs 329: the number of trailing fragments, in u32 arithmetic.
FragmentCount(packet_size) ==
    ((packet_size - UDP_DEFAULT_MTU) \div (UDP_DEFAULT_MTU - FRAGMENT_HEADER_SIZE))
    + (IF (packet_size - UDP_DEFAULT_MTU) % (UDP_DEFAULT_MTU - FRAGMENT_HEADER_SIZE) # 0
       THEN 1 ELSE 0)

\* A faulty variant of NewFragmentHeader: the head is not counted in the total.
NewFragmentHeaderWithoutHead(in) ==
    [id |-> in.id, dest |-> in.dest, fragment_indicator |-> FRAGMENT_INDICATOR,
     total_and_fragment_no |-> (FragmentCount(in.size) * 16) % 256,
     reserved_hops |-> 0]

\* peer.rs 332-338; ((fragment_count + 1) << 4) as u8
NewFragmentHeader(in) ==
    [id |-> in.id, dest |-> in.dest, fragment_indicator |-> FRAGMENT_INDICATOR,
     total_and_fragment_no |-> ((FragmentCount(in.size) + 1) * 16) % 256,
     reserved_hops |-> 0]

\* A faulty variant of ChunkSize: no room is left for the fragment header.
ChunkSizeWithoutHeader(packet_size, pos) ==
    IF packet_size - pos < UDP_DEFAULT_MTU THEN packet_size - pos ELSE UDP_DEFAULT_MTU

\* A faulty variant of ChunkSize: what is left of the packet is not looked at.
ChunkSizeAlwaysFull(packet_size, pos) == UDP_DEFAULT_MTU - FRAGMENT_HEADER_SIZE

\* peer.rs 340, 349: (packet_size - pos).min(UDP_DEFAULT_MTU - FRAGMENT_HEADER_SIZE)
ChunkSize(packet_size, pos) ==
    IF packet_size - pos < UDP_DEFAULT_MTU - FRAGMENT_HEADER_SIZE
    THEN packet_size - pos ELSE UDP_DEFAULT_MTU - FRAGMENT_HEADER_SIZE

\* peer.rs 342: header.total_and_fragment_no += 1
NextFragmentNo(header) ==
    [header EXCEPT !.total_and_fragment_no = (@ + 1) % 256]

WireSendCall(in, n, header, from, to) ==
    [header |-> header, from |-> from, to |-> to, ret |-> WireSendOk(in, n)]

\* peer.rs 341-353: the loop, entered with the header of the fragment before,
\* the position reached and the calls made so far.
RECURSIVE FragmentLoop(_, _, _, _)
FragmentLoop(in, header, pos, calls) ==
    CHOOSE r \in
      { IF ~c.ret THEN [calls |-> Append(calls, c), ret |-> FALSE]
        ELSE IF c.to < in.size THEN FragmentLoop(in, Unwrap(c.header), c.to, Append(calls, c))
        ELSE [calls |-> Append(calls, c), ret |-> TRUE] :
          c \in { WireSendCall(in, Len(calls) + 1, Some(NextFragmentNo(header)),
                               pos, pos + ChunkSize(in.size, pos)) } } : TRUE

\* A faulty variant of SendUdpResult: the result of sending the head is not
\* looked at.
SendUdpResultIgnoringHead(in) ==
    IF in.size > UDP_DEFAULT_MTU
    THEN FragmentLoop(in, NewFragmentHeader(in), UDP_DEFAULT_MTU,
                      << WireSendCall(in, 1, None, 0, UDP_DEFAULT_MTU) >>)
    ELSE [calls |-> << WireSendCall(in, 1, None, 0, in.size) >>, ret |-> WireSendOk(in, 1)]

\* The whole of send_udp: the wire_send calls it makes and what it returns.
SendUdpResult(in) ==
    IF in.size > UDP_DEFAULT_MTU
    THEN IF ~WireSendOk(in, 1)
         THEN [calls |-> << WireSendCall(in, 1, None, 0, UDP_DEFAULT_MTU) >>, ret |-> FALSE]
         ELSE FragmentLoop(in, NewFragmentHeader(in), UDP_DEFAULT_MTU,
                           << WireSendCall(in, 1, None, 0, UDP_DEFAULT_MTU) >>)
    ELSE [calls |-> << WireSendCall(in, 1, None, 0, in.size) >>, ret |-> WireSendOk(in, 1)]

TxInputs ==
    [id : TxPacketIds, dest : {PeerAddress}, size : 0..PACKET_SIZE_MAX,
     fail_at : 0..MaxFailAt]

SendUdp ==
    /\ tx_ret = "none"
    /\ \E in \in TxInputs :
         \E r \in {SendUdpResult(in)} :
           /\ tx_in' = in
           /\ tx_calls' = r.calls
           /\ tx_ret' = IF r.ret THEN "true" ELSE "false"
    /\ UNCHANGED <<peer_vars, rx_vars, iv_vars, ext_vars>>

\* The call is over.
SendUdpReturn ==
    /\ tx_ret # "none"
    /\ tx_in' = [id |-> 0, dest |-> "", size |-> 0, fail_at |-> 0]
    /\ tx_calls' = <<>>
    /\ tx_ret' = "none"
    /\ UNCHANGED <<peer_vars, rx_vars, iv_vars, ext_vars>>

TxInit ==
    /\ PeerInit
    /\ ExtIdle
    /\ rx_in = RxNoInput
    /\ rx_out = RxNoOutput
    /\ IvIdle
    /\ TxIdle

TxNext ==
    \/ SendUdp
    \/ SendUdpReturn

SpecSend == TxInit /\ [][TxNext]_vars

(***************************************************************************)
(* Properties of Peer::send_udp.                                           *)
(***************************************************************************)
TxCalled == tx_ret # "none"
CeilDiv(a, b) == (a + (b - 1)) \div b
\* The number of pieces, head included, a packet of the given size is cut into.
PieceCount(size) ==
    IF size <= UDP_DEFAULT_MTU THEN 1
    ELSE CeilDiv(size - UDP_DEFAULT_MTU, UDP_DEFAULT_MTU - FRAGMENT_HEADER_SIZE) + 1
TxAllSucceeded == \A i \in 1..Len(tx_calls) : tx_calls[i].ret

\* C8: when every wire_send succeeds, send_udp makes one wire_send call for a
\* packet of at most MTU bytes and ceil((S - MTU) / (MTU - FragmentHeaderSize))
\* + 1 calls for a larger one: the head of MTU bytes, then the fragments.
C8_WireSendCount ==
    (TxCalled /\ TxAllSucceeded) =>
        /\ tx_ret = "true"
        /\ Len(tx_calls) = PieceCount(tx_in.size)
        /\ tx_in.size <= UDP_DEFAULT_MTU =>
              (tx_calls[1].from = 0 /\ tx_calls[1].to = tx_in.size)
        /\ tx_in.size > UDP_DEFAULT_MTU =>
              (tx_calls[1].from = 0 /\ tx_calls[1].to = UDP_DEFAULT_MTU)

\* A packet of 6000 bytes went out in 5 calls.
C8_Witness ==
    /\ TxCalled
    /\ TxAllSucceeded
    /\ tx_in.size = 6000
    /\ Len(tx_calls) = 5

\* C9: the first wire_send call that returns false is the last call of the
\* invocation, which then returns false; nothing is sent twice; send_udp
\* returns true only if every call it made returned true.
C9_FirstFailureAborts ==
    TxCalled =>
        /\ \A i \in 1..(Len(tx_calls) - 1) : tx_calls[i].ret
        /\ (tx_ret = "true") <=> TxAllSucceeded
        /\ (tx_ret = "false") <=> ~tx_calls[Len(tx_calls)].ret
        /\ \A i, j \in 1..Len(tx_calls) : i < j => tx_calls[i].to <= tx_calls[j].from

\* The head failed, or a fragment failed with more of the packet left to send.
C9_Witness ==
    /\ TxCalled
    /\ tx_ret = "false"
    /\ tx_in.size > UDP_DEFAULT_MTU
    /\ tx_calls[Len(tx_calls)].to < tx_in.size
    /\ Len(tx_calls) = 2

\* C10: the fragments of a packet cut into N pieces carry, in the order they
\* are sent, fragment headers with the packet's id and destination, the
\* fragment indicator, N in the high nibble of the composite byte and the
\* fragment numbers 1, 2, ..., N-1 in its low nibble; N fits into a nibble for
\* every packet size up to PACKET_SIZE_MAX.
C10_FragmentHeaders ==
    (TxCalled /\ tx_in.size > UDP_DEFAULT_MTU) =>
        /\ PieceCount(tx_in.size) <= 15
        /\ tx_calls[1].header = None
        /\ TxAllSucceeded => Len(tx_calls) = PieceCount(tx_in.size)
        /\ \A i \in 2..Len(tx_calls) :
              /\ IsSome(tx_calls[i].header)
              /\ Unwrap(tx_calls[i].header).id = tx_in.id
              /\ Unwrap(tx_calls[i].header).dest = tx_in.dest
              /\ Unwrap(tx_calls[i].header).fragment_indicator = FRAGMENT_INDICATOR
              /\ Unwrap(tx_calls[i].header).total_and_fragment_no \div 16
                    = PieceCount(tx_in.size)
              /\ Unwrap(tx_calls[i].header).total_and_fragment_no % 16 = i - 1

\* The largest packet, sent whole.
C10_Witness ==
    /\ TxCalled
    /\ TxAllSucceeded
    /\ tx_in.size = PACKET_SIZE_MAX
    /\ Len(tx_calls) >= 3
    /\ Unwrap(tx_calls[Len(tx_calls)].header).total_and_fragment_no % 16
          = Len(tx_calls) - 1

(***************************************************************************)
(* Peer::best_path (peer.rs 309-311) and the path list. A path is given by *)
(* its endpoint and its quality; the list is kept in ascending order of    *)
(* quality by whoever adds to it (no code under src/ does).                *)
(***************************************************************************)
\* The path list holds at most MaxPaths paths, of qualities 1..MaxQuality.
MaxPaths == 3
MaxQuality == 3
PathEndpoints == {"endpoint a", "endpoint b", "endpoint c"}

\* A path is learned: it goes behind the paths of lower or equal quality.
InsertPath(ps, p) ==
    LET below == SelectSeq(ps, LAMBDA q : q.quality <= p.quality)
        above == SelectSeq(ps, LAMBDA q : q.quality > p.quality)
    IN  below \o <<p>> \o above
RemovePath(ps, i) == SubSeq(ps, 1, i - 1) \o SubSeq(ps, i + 1, Len(ps))

\* A faulty variant of BestPathResult: the first element is taken.
BestPathResultFirst(ps) ==
    [ret |-> IF ps = <<>> THEN None ELSE Some(ps[1]), paths |-> ps]

\* peer.rs 310: self.paths.lock().last().map(|p| p.clone()): the value
\* returned and the list as the call leaves it.
BestPathResult(ps) ==
    [ret |-> IF ps = <<>> THEN None ELSE Some(ps[Len(ps)]), paths |-> ps]

LearnPath ==
    /\ op_out.op = "none"
    /\ Len(paths) < MaxPaths
    /\ \E e \in PathEndpoints, q \in 1..MaxQuality :
          /\ \A i \in 1..Len(paths) : paths[i].endpoint # e
          /\ paths' = InsertPath(paths, [endpoint |-> e, quality |-> q])
    /\ UNCHANGED <<time_vars, key_vars, lock_vars, static_secret, ephemeral_secret, last_receive_time_ticks,
                   total_bytes_received, stat_vars, op_out, rx_menu, slot_vars,
                   cfg_vars, rx_vars, iv_vars, tx_vars>>

ForgetPath ==
    /\ op_out.op = "none"
    /\ \E i \in 1..Len(paths) : paths' = RemovePath(paths, i)
    /\ UNCHANGED <<time_vars, key_vars, lock_vars, static_secret, ephemeral_secret, last_receive_time_ticks,
                   total_bytes_received, stat_vars, op_out, rx_menu, slot_vars,
                   cfg_vars, rx_vars, iv_vars, tx_vars>>

BestPath ==
    /\ op_out.op = "none"
    /\ \E r \in {BestPathResult(paths)} :
          /\ paths' = r.paths
          /\ op_out' = [op |-> "best_path", outcome |-> "returned", ret |-> r.ret,
                        old_paths |-> paths]
    /\ UNCHANGED <<time_vars, key_vars, lock_vars, static_secret, ephemeral_secret, last_receive_time_ticks,
                   total_bytes_received, stat_vars, rx_menu, slot_vars,
                   cfg_vars, rx_vars, iv_vars, tx_vars>>

\* The call is over.
OpReturn ==
    /\ op_out.op # "none"
    /\ op_out' = NoOp
    /\ UNCHANGED <<time_vars, key_vars, lock_vars, peer_vars, path_vars, stat_vars, rx_menu, slot_vars,
                   cfg_vars, rx_vars, iv_vars, tx_vars>>

PathInit ==
    /\ PeerInit
    /\ ExtIdle
    /\ rx_in = RxNoInput
    /\ rx_out = RxNoOutput
    /\ IvIdle
    /\ TxIdle

PathNext ==
    \/ LearnPath
    \/ ForgetPath
    \/ BestPath
    \/ OpReturn

SpecPath == PathInit /\ [][PathNext]_vars

\* C11: best_path returns the last element of the path list, which is a path
\* of the highest quality in the list, when the list is not empty, and none
\* when it is empty; the path list is the same after the call as before it.
C11_BestPathIsLast ==
    op_out.op = "best_path" =>
        /\ op_out.outcome = "returned"
        /\ paths = op_out.old_paths
        /\ op_out.old_paths = <<>> => op_out.ret = None
        /\ op_out.old_paths # <<>> =>
              /\ op_out.ret = Some(op_out.old_paths[Len(op_out.old_paths)])
              /\ \A i \in 1..Len(op_out.old_paths) :
                    op_out.old_paths[i].quality <= Unwrap(op_out.ret).quality

\* best_path was called on a list of paths of different qualities.
C11_Witness ==
    /\ op_out.op = "best_path"
    /\ Len(op_out.old_paths) = MaxPaths
    /\ op_out.old_paths[1].quality < op_out.old_paths[Len(op_out.old_paths)].quality
    /\ IsSome(op_out.ret)

(***************************************************************************)
(* The other operations on a peer: send (peer.rs 365-369), forward         *)
(* (378-382), send_hello (388-475) and on_interval (479-480), called one   *)
(* at a time and interleaved with receive calls.                           *)
(***************************************************************************)
\* The sizes of the packets given to send and forward.
SendSizes == {PACKET_HEADER_SIZE + 1}
\* AtomicU64::fetch_add(len); the counters stay far below 2^64 here.
FetchAdd(counter, len) == counter + len

\* peer.rs 366-368: the counters are advanced, then todo!() panics.
Send ==
    /\ op_out.op = "none"
    /\ rx_out.outcome = "none"
    /\ total_bytes_sent <= MaxTotalBytes
    /\ \E t \in 1..MaxTime, len \in SendSizes :
          /\ last_send_time_ticks' = t
          /\ total_bytes_sent' = FetchAdd(total_bytes_sent, len)
    /\ op_out' = [op |-> "send", outcome |-> "panic", ret |-> None, old_paths |-> paths]
    /\ UNCHANGED <<time_vars, key_vars, lock_vars, peer_vars, paths, last_forward_time_ticks, total_bytes_forwarded,
                   rx_menu, slot_vars, cfg_vars, rx_vars, iv_vars, tx_vars>>

\* peer.rs 379-381: the counters are advanced, then todo!() panics.
Forward ==
    /\ op_out.op = "none"
    /\ rx_out.outcome = "none"
    /\ total_bytes_forwarded <= MaxTotalBytes
    /\ \E t \in 1..MaxTime, len \in SendSizes :
          /\ last_forward_time_ticks' = t
          /\ total_bytes_forwarded' = FetchAdd(total_bytes_forwarded, len)
    /\ op_out' = [op |-> "forward", outcome |-> "panic", ret |-> None, old_paths |-> paths]
    /\ UNCHANGED <<time_vars, key_vars, lock_vars, peer_vars, paths, last_send_time_ticks, total_bytes_sent,
                   rx_menu, slot_vars, cfg_vars, rx_vars, iv_vars, tx_vars>>

\* peer.rs 389-397: the path send_hello uses when it is given no endpoint:
\* the peer's best path, or else the best path of the root.
HelloPath(ps, root_path) ==
    IF IsSome(BestPathResult(ps).ret) THEN BestPathResult(ps).ret ELSE root_path

\* peer.rs 399: the endpoint; path.as_ref().unwrap() panics when there is
\* neither an endpoint given nor a path.
HelloEndpoint(try_new_endpoint, path) ==
    IF IsSome(try_new_endpoint) THEN [ok |-> TRUE, endpoint |-> Unwrap(try_new_endpoint)]
    ELSE IF IsSome(path) THEN [ok |-> TRUE, endpoint |-> Unwrap(path).endpoint]
    ELSE [ok |-> FALSE, endpoint |-> ""]

\* peer.rs 388-475. With an endpoint the packet id is drawn (403); building
\* the packet then panics: with debug assertions at the todo!() of line 425,
\* without them (the appends inside debug_assert! are not made) at the slice
\* of the empty packet in line 463. send_udp is not reached.
SendHello ==
    /\ op_out.op = "none"
    /\ rx_out.outcome = "none"
    /\ Len(iv_log) < NumThreads
    /\ \E try_new_endpoint \in {None} \cup {Some(e) : e \in PathEndpoints},
          root_path \in {None, Some([endpoint |-> "endpoint c", quality |-> 1])} :
       \E ep \in {HelloEndpoint(try_new_endpoint,
                               IF IsSome(try_new_endpoint) THEN None
                               ELSE HelloPath(paths, root_path))} :
          IF ep.ok
          THEN /\ packet_iv_counter' = FetchAddOne(packet_iv_counter)
               /\ iv_log' = Append(iv_log, packet_iv_counter)
               /\ op_out' = [op |-> "send_hello", outcome |-> "panic",
                             ret |-> Some(ep.endpoint), old_paths |-> paths,
                             try_new_endpoint |-> try_new_endpoint,
                             root_path |-> root_path]
          ELSE /\ UNCHANGED <<packet_iv_counter, iv_log>>
               /\ op_out' = [op |-> "send_hello", outcome |-> "panic",
                             ret |-> None, old_paths |-> paths,
                             try_new_endpoint |-> try_new_endpoint,
                             root_path |-> root_path]
    /\ UNCHANGED <<time_vars, key_vars, lock_vars, peer_vars, path_vars, stat_vars, rx_menu, slot_vars, cfg_vars,
                   rx_vars, iv_pc, iv_id, tx_vars>>

\* peer.rs 479-480: the body is empty.
OnInterval ==
    /\ op_out.op = "none"
    /\ rx_out.outcome = "none"
    /\ op_out' = [op |-> "on_interval", outcome |-> "returned", ret |-> None,
                  old_paths |-> paths]
    /\ UNCHANGED <<time_vars, key_vars, lock_vars, peer_vars, path_vars, stat_vars, rx_menu, slot_vars, cfg_vars,
                   rx_vars, iv_vars, tx_vars>>

PeerOpsInit ==
    /\ PeerInit
    /\ op_out = NoOp
    /\ rx_menu = "few"
    /\ SlotIdle
    /\ CfgIdle
    /\ KeyIdle
    /\ LockIdle
    /\ TimeIdle
    /\ rx_in = RxNoInput
    /\ rx_out = RxNoOutput
    /\ IvIdle
    /\ TxIdle

PeerOpsNext ==
    \/ Receive
    \/ ReceiveReturn
    \/ InstallEphemeral
    \/ Send
    \/ Forward
    \/ SendHello
    \/ OnInterval
    \/ OpReturn

SpecPeer == PeerOpsInit /\ [][PeerOpsNext]_vars

\* C12: the static secret of a peer is the one made at construction from the
\* identity agreement, with creation time -1, after every sequence of receive,
\* send, forward, send_hello and on_interval calls.
C12_StaticSecretUnchanged ==
    /\ static_secret.secret = StaticKey
    /\ static_secret.create_time_ticks = -1
    /\ static_secret.addr = "static_secret"
    /\ IsSome(ephemeral_secret) => Unwrap(ephemeral_secret).addr # static_secret.addr

\* send, forward and send_hello have been called, an ephemeral secret has
\* been installed and a packet has been authenticated.
C12_Witness ==
    /\ last_send_time_ticks > 0
    /\ last_forward_time_ticks > 0
    /\ iv_log # <<>>
    /\ IsSome(ephemeral_secret)
    /\ rx_out.outcome = "authenticated"

(***************************************************************************)
(* Peer::receive step by step (peer.rs 209-278), run by several threads    *)
(* while another thread replaces the ephemeral secret. Whether a trial     *)
(* authenticates the packet is left open here.                             *)
(***************************************************************************)
\* The number of threads in receive, and of replacements of the secret.
NumReceivers == 2
MaxGenerations == 2
Receivers == 1..NumReceivers

\* A faulty variant of MutexAfterSnapshot: the guard lives on in a variable.
MutexKeptAfterSnapshot(t) == [holder |-> "receiver", id |-> t]

\* peer.rs 209: let ephemeral_secret = self.ephemeral_secret.lock().clone();
\* the guard is a temporary, dropped at the end of the statement.
MutexAfterSnapshot(t) == NoHolder

\* The secret number g put into the slot.
EphemeralGeneration(g) ==
    [addr |-> "ephemeral_secret", create_time_ticks |-> g, secret |-> EphemeralKey]

\* peer.rs 209: self.ephemeral_secret.lock()
RcvLock(t) ==
    /\ rcv_pc[t] = "start"
    /\ mutex = NoHolder
    /\ mutex' = [holder |-> "receiver", id |-> t]
    /\ rcv_pc' = [rcv_pc EXCEPT ![t] = "locked"]
    /\ UNCHANGED <<time_vars, key_vars, lock_vars, peer_vars, path_vars, stat_vars, op_out, rx_menu, cfg_vars,
                   rcv_snapshot, rcv_used, rep_pc, rx_vars, iv_vars, tx_vars>>

\* peer.rs 209: .clone(), and the end of the statement
RcvSnapshot(t) ==
    /\ rcv_pc[t] = "locked"
    /\ rcv_snapshot' = [rcv_snapshot EXCEPT ![t] = ephemeral_secret]
    /\ mutex' = MutexAfterSnapshot(t)
    /\ rcv_used' = [rcv_used EXCEPT ![t] = <<>>]
    /\ rcv_pc' = [rcv_pc EXCEPT ![t] = "trial 1"]
    /\ UNCHANGED <<time_vars, key_vars, lock_vars, peer_vars, path_vars, stat_vars, op_out, rx_menu, cfg_vars,
                   rep_pc, rx_vars, iv_vars, tx_vars>>

\* peer.rs 210-277: one turn of the loop, with the secret the list made of
\* the snapshot gives; authentic says whether the packet authenticates.
RcvTrial(t, i, authentic) ==
    /\ rcv_pc[t] = (IF i = 1 THEN "trial 1" ELSE "trial 2")
    /\ \E secret \in {TrialList(rcv_snapshot[t], static_secret)[i]} :
          /\ rcv_used' = [rcv_used EXCEPT ![t] = Append(@, secret)]
          /\ rcv_pc' = [rcv_pc EXCEPT ![t] =
                IF authentic THEN "authenticated"
                ELSE IF IsStaticSecret(secret, static_secret) \/ i = 2 THEN "dropped"
                ELSE "trial 2"]
    /\ UNCHANGED <<time_vars, key_vars, lock_vars, peer_vars, path_vars, stat_vars, op_out, rx_menu, cfg_vars,
                   mutex, rcv_snapshot, rep_pc, rx_vars, iv_vars, tx_vars>>

\* peer.rs 278, 305: the snapshot is dropped and the call ends.
RcvEnd(t) ==
    /\ rcv_pc[t] \in {"authenticated", "dropped"}
    /\ rcv_pc' = [rcv_pc EXCEPT ![t] = "start"]
    /\ rcv_snapshot' = [rcv_snapshot EXCEPT ![t] = None]
    /\ rcv_used' = [rcv_used EXCEPT ![t] = <<>>]
    /\ UNCHANGED <<time_vars, key_vars, lock_vars, peer_vars, path_vars, stat_vars, op_out, rx_menu, cfg_vars,
                   mutex, rep_pc, rx_vars, iv_vars, tx_vars>>

\* The replacing thread takes the mutex ...
ReplaceLock ==
    /\ rep_pc = "idle"
    /\ mutex = NoHolder
    /\ mutex' = [holder |-> "replacer", id |-> 0]
    /\ rep_pc' = "locked"
    /\ UNCHANGED <<time_vars, key_vars, lock_vars, peer_vars, path_vars, stat_vars, op_out, rx_menu, cfg_vars,
                   rcv_pc, rcv_snapshot, rcv_used, rx_vars, iv_vars, tx_vars>>

\* ... and stores the next secret, or none, and lets the mutex go.
ReplaceStore ==
    /\ rep_pc = "locked"
    /\ \/ /\ IsSome(ephemeral_secret)
          /\ ephemeral_secret' = None
       \/ \E g \in 1..MaxGenerations :
             /\ IsSome(ephemeral_secret) => g > Unwrap(ephemeral_secret).create_time_ticks
             /\ ephemeral_secret' = Some(EphemeralGeneration(g))
    /\ mutex' = NoHolder
    /\ rep_pc' = "idle"
    /\ UNCHANGED <<time_vars, key_vars, lock_vars, static_secret, last_receive_time_ticks, total_bytes_received,
                   path_vars, stat_vars, op_out, rx_menu, cfg_vars,
                   rcv_pc, rcv_snapshot, rcv_used, rx_vars, iv_vars, tx_vars>>

SlotInit ==
    /\ PeerInit
    /\ op_out = NoOp
    /\ rx_menu = "all"
    /\ CfgIdle
    /\ KeyIdle
    /\ LockIdle
    /\ TimeIdle
    /\ mutex = NoHolder
    /\ rcv_pc = [t \in Receivers |-> "start"]
    /\ rcv_snapshot = [t \in Receivers |-> None]
    /\ rcv_used = [t \in Receivers |-> <<>>]
    /\ rep_pc = "idle"
    /\ rx_in = RxNoInput
    /\ rx_out = RxNoOutput
    /\ IvIdle
    /\ TxIdle

SlotNext ==
    \/ \E t \in Receivers : RcvLock(t)
    \/ \E t \in Receivers : RcvSnapshot(t)
    \/ \E t \in Receivers, i \in {1, 2}, authentic \in BOOLEAN : RcvTrial(t, i, authentic)
    \/ \E t \in Receivers : RcvEnd(t)
    \/ ReplaceLock
    \/ ReplaceStore

SpecSlot == SlotInit /\ [][SlotNext]_vars

\* C13: the slot holds at most one ephemeral secret; a receive holds the
\* ephemeral_secret mutex only between locking it and taking its snapshot,
\* never during a trial; its first trial uses the secret of its snapshot (the
\* static secret if the snapshot is empty) and its second the static secret,
\* whatever the slot holds by then; so a replacement waits at most for the
\* snapshot of a receive, and no receive uses secrets of two generations.
C13_SnapshotOutsideLock ==
    /\ Len(ephemeral_secret) <= 1
    /\ mutex.holder = "receiver" => rcv_pc[mutex.id] = "locked"
    /\ \A t \in Receivers :
          /\ rcv_pc[t] \in {"trial 1", "trial 2", "authenticated", "dropped"} =>
                mutex # [holder |-> "receiver", id |-> t]
          /\ Len(rcv_used[t]) >= 1 =>
                rcv_used[t][1] = (IF IsSome(rcv_snapshot[t])
                                  THEN Unwrap(rcv_snapshot[t]) ELSE static_secret)
          /\ Len(rcv_used[t]) >= 2 =>
                (IsSome(rcv_snapshot[t]) /\ rcv_used[t][2] = static_secret)
          /\ Len(rcv_used[t]) <= 2
    /\ (rep_pc = "idle" /\ \A t \in Receivers : rcv_pc[t] # "locked") => ENABLED ReplaceLock

\* The secret was replaced while a receive was between its two trials, and
\* the replacing thread holds the mutex again.
C13_Witness ==
    /\ \E t \in Receivers :
          /\ rcv_pc[t] = "trial 2"
          /\ IsSome(rcv_snapshot[t])
          /\ rcv_snapshot[t] # ephemeral_secret
          /\ rcv_used[t] = << Unwrap(rcv_snapshot[t]) >>
    /\ IsSome(ephemeral_secret)
    /\ rep_pc = "locked"

(***************************************************************************)
(* Packets sealed under Salsa20/12-Poly1305 and changed in transit.        *)
(***************************************************************************)
TamperInit ==
    /\ PeerInit
    /\ op_out = NoOp
    /\ rx_menu = "salsa"
    /\ SlotIdle
    /\ CfgIdle
    /\ KeyIdle
    /\ LockIdle
    /\ TimeIdle
    /\ rx_in = RxNoInput
    /\ rx_out = RxNoOutput
    /\ IvIdle
    /\ TxIdle

SpecTamper == TamperInit /\ [][RxNext]_vars

\* The packet of the call was changed on its way, the hop bits apart.
RxTamperedBeyondHops == RxCalled /\ rx_in.tamper \notin {"none", "hops"}
RxNotAuthenticated ==
    /\ ~RxAuthenticatesUnderEphemeral
    /\ ~RxAuthenticatesUnderStatic
    /\ rx_out.outcome # "authenticated"
    /\ rx_out.calls = <<>>
    /\ RxCountersUnchanged

\* C20 as stated: a packet sealed under Salsa20/12-Poly1305 in which any byte
\* of the header, of the ciphertext or of the tag was changed authenticates
\* under no trial secret and is dropped.
C20_AnyChangeIsRejected ==
    (RxCalled /\ rx_in.tamper # "none") => RxNotAuthenticated

\* C20 amended: such a packet authenticates under no trial secret and is
\* dropped when the change is to the packet id, the destination, the source,
\* the cipher bits of the flags byte, the ciphertext or the tag; a change of
\* the hop bits of the flags byte alone does not alter whether the packet
\* authenticates.
C20_ChangeBeyondHopsIsRejected ==
    /\ RxTamperedBeyondHops => RxNotAuthenticated
    /\ (RxCalled /\ rx_in.tamper = "hops") =>
          (rx_out.outcome = "authenticated" <=>
              ReceiveResult(rx_out.old_ephemeral, static_secret, rx_out.old_time,
                            rx_out.old_total,
                            [rx_in EXCEPT !.header.flags_cipher_hops.hops = @ - 1]).outcome
                  = "authenticated")
C20_Witness ==
    /\ RxCalled
    /\ rx_in.tamper = "body"
    /\ rx_in.fragments = <<>>
    /\ rx_in.header.message_auth.k =
          salsa_derive_per_packet_key(StaticKey, rx_in.header, BufLen(rx_in.packet))
    /\ rx_out.trials >= 1
    /\ rx_out.outcome = "dropped"

(***************************************************************************)
(* NetworkConfig and its V1 dictionary form (vl2/networkconfig.rs).        *)
(* A Dictionary is a function from keys to optional values. Values are     *)
(* what Dictionary::set_* stores: a string; a number or an id in its text  *)
(* form ([kind |-> "hex", n |-> ..], or [kind |-> "garbage", ..] for text  *)
(* that does not parse); or bytes. The bytes of marshalled objects are     *)
(* sequences of items [ok |-> TRUE, item |-> object], an item with ok =    *)
(* FALSE standing for bytes that do not unmarshal; the DNS value is a      *)
(* sequence of bytes. Names of DNS entries are sequences of characters.    *)
(***************************************************************************)
\* networkconfig.rs 330-360: proto_v1_field_name::network_config
NETWORK_ID == "nwid"
TIMESTAMP == "ts"
REVISION == "r"
ISSUED_TO == "id"
MULTICAST_LIMIT == "ml"
TYPE == "t"
NAME == "n"
MTU == "mtu"
MAX_DELTA == "ctmd"
CERTIFICATE_OF_MEMBERSHIP == "C"
ROUTES == "RT"
STATIC_IPS == "I"
RULES == "R"
TAGS == "TAG"
CERTIFICATES_OF_OWNERSHIP == "COO"
DNS == "DNS"
CENTRAL_URL == "ssoce"
SSO_ENABLED == "ssoe"
SSO_VERSION == "ssov"
SSO_AUTHENTICATION_URL == "aurl"
SSO_AUTHENTICATION_EXPIRY_TIME == "aexpt"
SSO_ISSUER_URL == "iurl"
SSO_NONCE == "sson"
SSO_STATE == "ssos"
SSO_CLIENT_ID == "ssocid"
\* A key that v1_proto_from_dictionary does not know.
UNKNOWN_KEY == "x"
DictKeys ==
    { NETWORK_ID, TIMESTAMP, REVISION, ISSUED_TO, MULTICAST_LIMIT, TYPE, NAME, MTU,
      MAX_DELTA, CERTIFICATE_OF_MEMBERSHIP, ROUTES, STATIC_IPS, RULES, TAGS,
      CERTIFICATES_OF_OWNERSHIP, DNS, CENTRAL_URL, SSO_ENABLED, SSO_VERSION,
      SSO_AUTHENTICATION_URL, SSO_AUTHENTICATION_EXPIRY_TIME, SSO_ISSUER_URL,
      SSO_NONCE, SSO_STATE, SSO_CLIENT_ID, UNKNOWN_KEY }
SsoStringKeys ==
    { SSO_AUTHENTICATION_URL, SSO_ISSUER_URL, SSO_NONCE, SSO_STATE, SSO_CLIENT_ID }

ZEROTIER_VIRTUAL_NETWORK_DEFAULT_MTU == 2800

\* networkconfig.rs 54-78: NetworkConfig::new
NetworkConfigNew(network_id, issued_to) ==
    [network_id |-> network_id, issued_to |-> issued_to, name |-> "", motd |-> "",
     private |-> TRUE, timestamp |-> 0, max_delta |-> 0, revision |-> 0, mtu |-> 0,
     multicast_limit |-> 0, routes |-> {}, static_ips |-> {}, rules |-> <<>>,
     dns |-> {}, certificate_of_membership |-> None,
     certificates_of_ownership |-> <<>>, tags |-> {}, banned |-> {},
     node_info |-> {}, central_url |-> "", sso |-> None]

\* Text forms: NetworkId::to_string, Address::to_string, Dictionary::set_u64.
HexText(n) == [kind |-> "hex", n |-> n]
GarbageText == [kind |-> "garbage", n |-> 0]
\* from_str / from_str_radix
ParseHex(text) ==
    IF text.kind = "hex" THEN [ok |-> TRUE, n |-> text.n] ELSE [ok |-> FALSE, n |-> 0]
\* Dictionary::set_bool / get_bool
BoolText(b) == IF b THEN "1" ELSE "0"
ParseBool(text) == text = "1"

\* x as u16
AsU16(x) == x % 65536

\* A set as the Vec its iterator gives: some order of its elements.
RECURSIVE SetToSeq(_)
SetToSeq(S) ==
    IF S = {} THEN <<>>
    ELSE LET x == CHOOSE y \in S : TRUE IN <<x>> \o SetToSeq(S \ {x})
SeqToSet(q) == { q[i] : i \in 1..Len(q) }

\* Marshalable::marshal_multiple_to_bytes / unmarshal_multiple_from_bytes
marshal_multiple_to_bytes(objects) ==
    [i \in 1..Len(objects) |-> [ok |-> TRUE, item |-> objects[i]]]
unmarshal_multiple_from_bytes(bytes) ==
    IF \A i \in 1..Len(bytes) : bytes[i].ok
    THEN [ok |-> TRUE, objects |-> [i \in 1..Len(bytes) |-> bytes[i].item]]
    ELSE [ok |-> FALSE, objects |-> <<>>]

\* InetAddress::marshal of an IPv4 address a with port 53 (7 bytes), and of
\* the nil address (1 byte); InetAddress::unmarshal at a cursor.
InetAddressBytes(a) == IF a = 0 THEN <<0>> ELSE <<4, 10, 0, 0, a, 0, 53>>
InetAddressUnmarshal(bytes, cursor) ==
    IF cursor > Len(bytes) THEN [ok |-> FALSE, a |-> 0, cursor |-> cursor]
    ELSE IF bytes[cursor] = 0 THEN [ok |-> TRUE, a |-> 0, cursor |-> cursor + 1]
    ELSE IF bytes[cursor] = 4 /\ cursor + 6 <= Len(bytes)
    THEN [ok |-> TRUE, a |-> bytes[cursor + 4], cursor |-> cursor + 7]
    ELSE [ok |-> FALSE, a |-> 0, cursor |-> cursor]

\* str::as_bytes: the UTF-8 form of a sequence of characters below U+0800,
\* computed half by half.
RECURSIVE Utf8Bytes(_)
Utf8Bytes(chars) ==
    IF chars = <<>> THEN <<>>
    ELSE IF Len(chars) = 1
    THEN (IF chars[1] < 128 THEN << chars[1] >>
          ELSE << 192 + (chars[1] \div 64), 128 + (chars[1] % 64) >>)
    ELSE LET half == Len(chars) \div 2
         IN  Utf8Bytes(SubSeq(chars, 1, half))
             \o Utf8Bytes(SubSeq(chars, half + 1, Len(chars)))
Zeros(n) == [i \in 1..n |-> 0]
RECURSIVE ServersBytes(_)
ServersBytes(servers) ==
    IF servers = <<>> THEN <<>>
    ELSE InetAddressBytes(servers[1]) \o ServersBytes(Tail(servers))

\* networkconfig.rs 133-145: the DNS value made of one entry of the map.
DnsBin(entry) ==
    LET all == Utf8Bytes(entry.name)
        name_bytes == SubSeq(all, 1, IF Len(all) < 127 THEN Len(all) ELSE 127)
    IN  name_bytes \o Zeros(128 - Len(name_bytes))
        \o ServersBytes(SetToSeq(entry.servers))

\* to_bytes / v1_proto_to_bytes of a certificate or a tag: no bytes when the
\* object has no V1 form (its v1 field is FALSE).
CertBytes(cert) == IF cert.v1 THEN Some(<<[ok |-> TRUE, item |-> cert]>>) ELSE None
RECURSIVE CertsBytes(_)
CertsBytes(certs) ==
    IF certs = <<>> THEN <<>>
    ELSE (IF CertBytes(certs[1]) = None THEN <<>> ELSE Unwrap(CertBytes(certs[1])))
         \o CertsBytes(Tail(certs))
TagValues(tags) == SetToSeq({ t.tag : t \in tags })

\* `if !s.is_empty() { d.set_str(key, s) }`
StrAlways(s) == Some(s)
StrIfNotEmpty(s) == IF s = "" THEN None ELSE Some(s)
\* `if !v.is_empty() { d.set_bytes(key, marshal_multiple_to_bytes(v)) }`
BytesIfNotEmpty(objects) ==
    IF objects = <<>> THEN None ELSE Some(marshal_multiple_to_bytes(objects))
\* networkconfig.rs 92-99
TypeText(private) == IF private THEN "0" ELSE "1"

\* networkconfig.rs 177-194: the value of an SSO key.
SsoField(c, key) ==
    IF c.sso = None THEN None
    ELSE LET sso == Unwrap(c.sso) IN
         CASE key = SSO_VERSION -> Some(HexText(sso.version))
           [] key = SSO_AUTHENTICATION_URL -> Some(sso.authentication_url)
           [] key = SSO_AUTHENTICATION_EXPIRY_TIME ->
                 Some(HexText(sso.authentication_expiry_time))
           [] key = SSO_ISSUER_URL -> Some(sso.issuer_url)
           [] key = SSO_NONCE -> Some(sso.nonce)
           [] key = SSO_STATE -> Some(sso.state)
           [] key = SSO_CLIENT_ID -> Some(sso.client_id)

\* networkconfig.rs 84-194: what the encoder stores under a key; dns_first is
\* the entry `self.dns.iter().next()` gives (None when the map is empty).
DictField(c, dns_first, key) ==
    CASE key = NETWORK_ID -> Some(HexText(c.network_id))
      [] key = NAME -> StrIfNotEmpty(c.name)
      [] key = ISSUED_TO -> Some(HexText(c.issued_to))
      [] key = TYPE -> Some(TypeText(c.private))
      [] key = TIMESTAMP -> Some(HexText(c.timestamp))
      [] key = MAX_DELTA -> Some(HexText(c.max_delta))
      [] key = REVISION -> Some(HexText(c.revision))
      [] key = MTU -> Some(HexText(c.mtu))
      [] key = MULTICAST_LIMIT -> Some(HexText(c.multicast_limit))
      [] key = ROUTES -> BytesIfNotEmpty(SetToSeq(c.routes))
      [] key = STATIC_IPS -> BytesIfNotEmpty(SetToSeq(c.static_ips))
      [] key = RULES -> BytesIfNotEmpty(c.rules)
      [] key = DNS -> IF dns_first = None THEN None ELSE Some(DnsBin(Unwrap(dns_first)))
      [] key = CERTIFICATE_OF_MEMBERSHIP ->
            IF c.certificate_of_membership = None THEN None
            ELSE CertBytes(Unwrap(c.certificate_of_membership))
      [] key = CERTIFICATES_OF_OWNERSHIP ->
            IF c.certificates_of_ownership = <<>> THEN None
            ELSE Some(CertsBytes(c.certificates_of_ownership))
      [] key = TAGS ->
            IF c.tags = {} THEN None ELSE Some(CertsBytes(TagValues(c.tags)))
      [] key = CENTRAL_URL -> StrIfNotEmpty(c.central_url)
      [] key = SSO_ENABLED -> Some(BoolText(c.sso # None))
      [] key \in SsoStringKeys \cup {SSO_VERSION, SSO_AUTHENTICATION_EXPIRY_TIME} ->
            SsoField(c, key)
      [] OTHER -> None

\* networkconfig.rs 150-169: the three places where the encoder gives up.
EncodeNeverFails(c) == FALSE
EncodeFails(c) ==
    \/ c.certificate_of_membership = None
    \/ DictField(c, None, CERTIFICATE_OF_MEMBERSHIP) = None
    \/ \E i \in 1..Len(c.certificates_of_ownership) :
          CertBytes(c.certificates_of_ownership[i]) = None
    \/ \E t \in c.tags : CertBytes(t.tag) = None

\* networkconfig.rs 81-197: NetworkConfig::v1_proto_to_dictionary
v1_proto_to_dictionary(c, dns_first) ==
    IF EncodeFails(c) THEN None
    ELSE Some([key \in DictKeys |-> DictField(c, dns_first, key)])

\* Dictionary::get_str / get_bytes, get_u64 / get_i64 (text that does not
\* parse reads as absent), get_bool.
get_str(d, key) == d[key]
get_bytes(d, key) == d[key]
get_u64(d, key) ==
    IF d[key] = None THEN None
    ELSE LET parsed == ParseHex(Unwrap(d[key]))
         IN  IF parsed.ok THEN Some(parsed.n) ELSE None
get_i64(d, key) == get_u64(d, key)
get_bool(d, key) == IF d[key] = None THEN None ELSE Some(ParseBool(Unwrap(d[key])))
\* Option::unwrap_or
unwrap_or(o, default) == IF o = None THEN default ELSE Unwrap(o)

\* A value that holds marshalled objects is malformed when it is present and
\* some object in it does not unmarshal.
Malformed(d, key) ==
    /\ get_bytes(d, key) # None
    /\ ~unmarshal_multiple_from_bytes(Unwrap(get_bytes(d, key))).ok
Objects(d, key) ==
    IF get_bytes(d, key) = None THEN <<>>
    ELSE unmarshal_multiple_from_bytes(Unwrap(get_bytes(d, key))).objects
\* CertificateOfMembership::v1_proto_from_bytes: the first object of the value.
ComInvalid(bytes) == bytes = <<>> \/ ~bytes[1].ok

\* networkconfig.rs 250: which lengths of the DNS value are decoded.
DnsLenOkInclusive(len) == len >= 128 /\ len <= 1024
DnsLenOk(len) == len > 128 /\ len < 1024
\* networkconfig.rs 251-258: the characters of the name.
DnsName(dns_bin) ==
    LET zeros == { i \in 1..128 : dns_bin[i] = 0 }
        stop == IF zeros = {} THEN 129
                ELSE CHOOSE i \in zeros : \A j \in zeros : i <= j
    IN  SubSeq(dns_bin, 1, stop - 1)
\* networkconfig.rs 262-270: the servers read until one does not unmarshal.
RECURSIVE DnsServers(_, _)
DnsServers(tmp, cursor) ==
    IF cursor > Len(tmp) THEN {}
    ELSE LET s == InetAddressUnmarshal(tmp, cursor)
         IN  IF s.ok THEN {s.a} \cup DnsServers(tmp, s.cursor) ELSE {}
\* networkconfig.rs 249-276
DnsDecoded(d) ==
    IF get_bytes(d, DNS) = None THEN {}
    ELSE LET dns_bin == Unwrap(get_bytes(d, DNS)) IN
         IF ~DnsLenOk(Len(dns_bin)) THEN {}
         ELSE LET name == DnsName(dns_bin)
                  servers == DnsServers(SubSeq(dns_bin, 129, Len(dns_bin)), 1)
              IN  IF name # <<>> /\ servers # {}
                  THEN {[name |-> name, servers |-> servers]} ELSE {}

\* networkconfig.rs 216
TypePrivate(d) ==
    IF get_str(d, TYPE) = None THEN TRUE ELSE Unwrap(get_str(d, TYPE)) = "1"
\* networkconfig.rs 217-219
TimestampOrZero(d) == Some(unwrap_or(get_i64(d, TIMESTAMP), 0))
Timestamp(d) == get_i64(d, TIMESTAMP)
\* networkconfig.rs 303-324
SsoDecoded(d) ==
    IF unwrap_or(get_bool(d, SSO_ENABLED), FALSE)
    THEN Some([version |-> unwrap_or(get_u64(d, SSO_VERSION), 0),
               authentication_url |-> unwrap_or(get_str(d, SSO_AUTHENTICATION_URL), ""),
               authentication_expiry_time |->
                   unwrap_or(get_i64(d, SSO_AUTHENTICATION_EXPIRY_TIME), 0),
               issuer_url |-> unwrap_or(get_str(d, SSO_ISSUER_URL), ""),
               nonce |-> unwrap_or(get_str(d, SSO_NONCE), ""),
               state |-> unwrap_or(get_str(d, SSO_STATE), ""),
               client_id |-> unwrap_or(get_str(d, SSO_CLIENT_ID), "")])
    ELSE None

\* networkconfig.rs 200-297: the error the decoder returns, "" when none.
DecodeError(d) ==
    IF get_str(d, NETWORK_ID) = None THEN "missing network ID"
    ELSE IF ~ParseHex(Unwrap(get_str(d, NETWORK_ID))).ok THEN "invalid network ID"
    ELSE IF get_str(d, ISSUED_TO) = None THEN "missing address"
    ELSE IF ~ParseHex(Unwrap(get_str(d, ISSUED_TO))).ok THEN "invalid address"
    ELSE IF Timestamp(d) = None THEN "missing timestamp"
    ELSE IF Malformed(d, ROUTES) THEN "invalid route object(s)"
    ELSE IF Malformed(d, STATIC_IPS) THEN "invalid route object(s)"
    ELSE IF Malformed(d, RULES) THEN "invalid route object(s)"
    ELSE IF get_bytes(d, CERTIFICATE_OF_MEMBERSHIP) = None
         THEN "missing certificate of membership"
    ELSE IF ComInvalid(Unwrap(get_bytes(d, CERTIFICATE_OF_MEMBERSHIP)))
         THEN "invalid certificate of membership"
    ELSE IF Malformed(d, CERTIFICATES_OF_OWNERSHIP) THEN "invalid certificate of ownership"
    ELSE IF Malformed(d, TAGS) THEN "invalid tag"
    ELSE ""

\* networkconfig.rs 212-326: the configuration the decoder builds.
DecodeConfig(d) ==
    [NetworkConfigNew(ParseHex(Unwrap(get_str(d, NETWORK_ID))).n,
                      ParseHex(Unwrap(get_str(d, ISSUED_TO))).n) EXCEPT
        !.name = unwrap_or(get_str(d, NAME), ""),
        !.private = TypePrivate(d),
        !.timestamp = Unwrap(Timestamp(d)),
        !.max_delta = unwrap_or(get_i64(d, MAX_DELTA), 0),
        !.revision = unwrap_or(get_u64(d, REVISION), 0),
        !.mtu = AsU16(unwrap_or(get_u64(d, MTU), ZEROTIER_VIRTUAL_NETWORK_DEFAULT_MTU)),
        !.multicast_limit = unwrap_or(get_u64(d, MULTICAST_LIMIT), 0),
        !.routes = SeqToSet(Objects(d, ROUTES)),
        !.static_ips = SeqToSet(Objects(d, STATIC_IPS)),
        !.rules = Objects(d, RULES),
        !.dns = DnsDecoded(d),
        !.certificate_of_membership =
            Some(Unwrap(get_bytes(d, CERTIFICATE_OF_MEMBERSHIP))[1].item),
        !.certificates_of_ownership = Objects(d, CERTIFICATES_OF_OWNERSHIP),
        !.tags = { [key |-> t.id, tag |-> t] : t \in SeqToSet(Objects(d, TAGS)) },
        !.central_url = unwrap_or(get_str(d, CENTRAL_URL), ""),
        !.sso = SsoDecoded(d)]

\* networkconfig.rs 200-327: NetworkConfig::v1_proto_from_dictionary
v1_proto_from_dictionary(d) ==
    IF DecodeError(d) # "" THEN [err |-> DecodeError(d), nc |-> None]
    ELSE [err |-> "", nc |-> Some(DecodeConfig(d))]

(***************************************************************************)
(* The configurations and the dictionaries the codec is run on. A          *)
(* configuration is built from NetworkConfig::new by edits of its public   *)
(* fields; a dictionary is one the encoder made, possibly changed in one   *)
(* place on its way to the decoder.                                        *)
(***************************************************************************)
MaxEdits == 2
MaxNameLen == 130

GoodCert(id) == [id |-> id, v1 |-> TRUE]
NoV1Cert(id) == [id |-> id, v1 |-> FALSE]
FullSso ==
    [version |-> 1, authentication_url |-> "a", authentication_expiry_time |-> 1,
     issuer_url |-> "i", nonce |-> "n", state |-> "s", client_id |-> "c"]
EmptySso ==
    [version |-> 0, authentication_url |-> "", authentication_expiry_time |-> 0,
     issuer_url |-> "", nonce |-> "", state |-> "", client_id |-> ""]
\* Names of DNS entries: "n", "é", the empty name, and a name longer than the
\* 127 bytes the encoder keeps.
AsciiName == <<110>>
LatinName == <<233>>
LongName == [i \in 1..MaxNameLen |-> 97]
DnsEntries ==
    { [name |-> AsciiName, servers |-> {1}],
      [name |-> AsciiName, servers |-> {}],
      [name |-> LatinName, servers |-> {1, 2}],
      [name |-> <<>>, servers |-> {1}],
      [name |-> LongName, servers |-> {2}] }

\* The configurations one assignment to a public field away from c.
Edits(c) ==
    { [c EXCEPT !.name = "net"], [c EXCEPT !.motd = "hello"],
      [c EXCEPT !.private = FALSE], [c EXCEPT !.timestamp = 5],
      [c EXCEPT !.max_delta = 7], [c EXCEPT !.revision = 3],
      [c EXCEPT !.mtu = 1500], [c EXCEPT !.mtu = ZEROTIER_VIRTUAL_NETWORK_DEFAULT_MTU],
      [c EXCEPT !.multicast_limit = 32],
      [c EXCEPT !.routes = @ \cup {"route"}],
      [c EXCEPT !.static_ips = @ \cup {1}],
      [c EXCEPT !.rules = <<"accept">>],
      [c EXCEPT !.certificate_of_membership = None],
      [c EXCEPT !.certificate_of_membership = Some(GoodCert(c.issued_to))],
      [c EXCEPT !.certificate_of_membership = Some(NoV1Cert(c.issued_to))],
      [c EXCEPT !.certificates_of_ownership = <<GoodCert(1)>>],
      [c EXCEPT !.certificates_of_ownership = <<GoodCert(1), NoV1Cert(2)>>],
      [c EXCEPT !.tags = @ \cup {[key |-> 1, tag |-> GoodCert(1)]}],
      [c EXCEPT !.tags = @ \cup {[key |-> 2, tag |-> NoV1Cert(2)]}],
      [c EXCEPT !.banned = {1}], [c EXCEPT !.node_info = {1}],
      [c EXCEPT !.central_url = "url"],
      [c EXCEPT !.sso = Some(FullSso)], [c EXCEPT !.sso = Some(EmptySso)] }
    \cup { [c EXCEPT !.dns = { f \in @ : f.name # e.name } \cup {e}] : e \in DnsEntries }

ConfigFields == DOMAIN NetworkConfigNew(0, 0)
\* How many fields of c differ from what NetworkConfig::new gave them.
EditCount(c) ==
    Cardinality({ f \in ConfigFields \ {"certificate_of_membership"} :
                    c[f] # NetworkConfigNew(c.network_id, c.issued_to)[f] })

\* A public field of the configuration is assigned.
Edit ==
    /\ nc_pc = "new"
    /\ EditCount(Unwrap(nc)) < MaxEdits
    /\ \E c \in Edits(Unwrap(nc)) :
          /\ c # Unwrap(nc)
          /\ nc' = Some(c)
    /\ UNCHANGED <<nc_pc, dict, decoded>>
    /\ UNCHANGED <<time_vars, key_vars, lock_vars, peer_vars, rx_vars, iv_vars, tx_vars, path_vars, stat_vars,
                   op_out, rx_menu, slot_vars>>

\* networkconfig.rs 81-197: v1_proto_to_dictionary is called; the entry of the
\* DNS map its iterator gives first is any one of them.
Encode ==
    /\ nc_pc = "new"
    /\ \E dns_first \in IF Unwrap(nc).dns = {} THEN {None}
                        ELSE { Some(e) : e \in Unwrap(nc).dns } :
          /\ dict' = v1_proto_to_dictionary(Unwrap(nc), dns_first)
          /\ nc_pc' = IF dict' = None THEN "failed" ELSE "encoded"
    /\ UNCHANGED <<nc, decoded>>
    /\ UNCHANGED <<time_vars, key_vars, lock_vars, peer_vars, rx_vars, iv_vars, tx_vars, path_vars, stat_vars,
                   op_out, rx_menu, slot_vars>>

\* Values for the DNS key of a given length: a name, zero padding to 128
\* bytes, the marshalled server 1, then bytes that are no address.
BadItem == [ok |-> FALSE, item |-> 0]
DnsBlob(name_bytes, len) ==
    LET head == name_bytes \o Zeros(128 - Len(name_bytes)) \o InetAddressBytes(1)
    IN  IF len <= Len(head) THEN SubSeq(head, 1, len)
        ELSE head \o [i \in 1..(len - Len(head)) |-> 255]
DnsBlobs ==
    { DnsBlob(AsciiName, 100), DnsBlob(AsciiName, 128), DnsBlob(AsciiName, 129),
      DnsBlob(AsciiName, 135), DnsBlob(AsciiName, 1023), DnsBlob(AsciiName, 1024),
      DnsBlob(<<>>, 135), DnsBlob([i \in 1..128 |-> 97], 135),
      DnsBlob(<<110, 0, 111>>, 135), DnsBlob(<<195, 169>>, 136) }

\* The dictionaries one change away from d: a key removed, a value replaced
\* by one of another content, or a key the decoder does not know added.
Mangles(d) ==
    { [d EXCEPT ![key] = None] : key \in { k \in DictKeys : d[k] # None } }
    \cup { [d EXCEPT ![key] = Some(GarbageText)] :
             key \in {NETWORK_ID, ISSUED_TO, TIMESTAMP, MTU, REVISION} }
    \cup { [d EXCEPT ![key] = Some(unwrap_or(@, <<>>) \o <<BadItem>>)] :
             key \in {ROUTES, STATIC_IPS, RULES, CERTIFICATE_OF_MEMBERSHIP,
                      CERTIFICATES_OF_OWNERSHIP, TAGS} }
    \cup { [d EXCEPT ![CERTIFICATE_OF_MEMBERSHIP] = Some(<<BadItem>>)],
           [d EXCEPT ![UNKNOWN_KEY] = Some("junk")],
           [d EXCEPT ![TYPE] = Some("0")], [d EXCEPT ![TYPE] = Some("1")],
           [d EXCEPT ![TYPE] = Some("2")],
           [d EXCEPT ![MTU] = Some(HexText(65536 + 1500))],
           [d EXCEPT ![SSO_ENABLED] = Some("1")] }
    \cup { [d EXCEPT ![DNS] = Some(blob)] : blob \in DnsBlobs }

\* networkconfig.rs 200-327: v1_proto_from_dictionary is called with the
\* dictionary the encoder made, or with one changed in one place on its way.
Decode ==
    /\ nc_pc = "encoded"
    /\ \E d \in {Unwrap(dict)} \cup Mangles(Unwrap(dict)) :
          /\ dict' = Some(d)
          /\ decoded' = Some(v1_proto_from_dictionary(d))
          /\ nc_pc' = IF d = Unwrap(dict) THEN "decoded" ELSE "decoded_mangled"
    /\ UNCHANGED nc
    /\ UNCHANGED <<time_vars, key_vars, lock_vars, peer_vars, rx_vars, iv_vars, tx_vars, path_vars, stat_vars,
                   op_out, rx_menu, slot_vars>>

CfgInit ==
    /\ PeerInit
    /\ rx_in = RxNoInput
    /\ rx_out = RxNoOutput
    /\ IvIdle
    /\ TxIdle
    /\ op_out = NoOp
    /\ rx_menu = "all"
    /\ SlotIdle
    /\ KeyIdle
    /\ LockIdle
    /\ TimeIdle
    /\ nc = Some(NetworkConfigNew(1, 3))
    /\ nc_pc = "new"
    /\ dict = None
    /\ decoded = None

CfgNext == Edit \/ Encode \/ Decode

SpecCfg == CfgInit /\ [][CfgNext]_vars

(***************************************************************************)
(* Claims about the codec.                                                 *)
(***************************************************************************)
\* The fields of a configuration the V1 dictionary carries, DNS apart.
CarriedFields ==
    { "network_id", "issued_to", "name", "private", "timestamp", "max_delta",
      "revision", "mtu", "multicast_limit", "routes", "static_ips", "rules",
      "certificate_of_membership", "certificates_of_ownership", "tags",
      "central_url", "sso" }
CfgEncoded == Unwrap(nc)
CfgDecoded == Unwrap(Unwrap(decoded).nc)
\* The decoded DNS map is the one entry the encoder wrote, or is empty when
\* the encoded configuration had none.
DnsIsEncodedEntry ==
    IF CfgEncoded.dns = {} THEN CfgDecoded.dns = {}
    ELSE \E e \in CfgEncoded.dns :
            /\ Unwrap(dict)[DNS] = Some(DnsBin(e))
            /\ CfgDecoded.dns = {e}

\* C14: encoding a configuration that has a certificate of membership and
\* decoding the result succeeds and gives back every field the V1 form
\* carries, with banned and node_info empty and the DNS map reduced to the
\* single encoded entry.
C14_RoundTrip ==
    nc_pc = "decoded" =>
        /\ Unwrap(decoded).err = ""
        /\ \A f \in CarriedFields : CfgDecoded[f] = CfgEncoded[f]
        /\ CfgDecoded.banned = {}
        /\ CfgDecoded.node_info = {}
        /\ DnsIsEncodedEntry

\* C15: the encoder returns no dictionary for a configuration without a
\* certificate of membership, whatever its other fields are, and every
\* dictionary it returns has the CERTIFICATE_OF_MEMBERSHIP key.
C15_EncodeNeedsCom ==
    /\ (nc_pc # "new" /\ CfgEncoded.certificate_of_membership = None) =>
          (nc_pc = "failed" /\ dict = None)
    /\ nc_pc = "encoded" => Unwrap(dict)[CERTIFICATE_OF_MEMBERSHIP] # None
C15_Witness ==
    /\ nc_pc = "failed"
    /\ CfgEncoded.certificate_of_membership = None
    /\ EditCount(CfgEncoded) = MaxEdits
    /\ CfgEncoded.sso # None

\* The dictionary the decoder was given and what it returned.
DictDecoded == Unwrap(dict)
DecodeResult == Unwrap(decoded)
VariableLengthSections == {ROUTES, STATIC_IPS, RULES, CERTIFICATES_OF_OWNERSHIP, TAGS}
DictMustBeRejected(d) ==
    \/ d[NETWORK_ID] = None
    \/ d[ISSUED_TO] = None
    \/ d[TIMESTAMP] = None
    \/ d[CERTIFICATE_OF_MEMBERSHIP] = None
    \/ ComInvalid(Unwrap(d[CERTIFICATE_OF_MEMBERSHIP]))
    \/ \E key \in VariableLengthSections : Malformed(d, key)

\* C16: the decoder returns an error and no configuration for a dictionary
\* that lacks the network ID, the issued-to address or the timestamp, whose
\* certificate of membership is missing or invalid, or that has a malformed
\* variable-length section; a key it does not know changes nothing and
\* causes no error.
C16_DecodeRejects ==
    decoded # None =>
        /\ DictMustBeRejected(DictDecoded) =>
              (DecodeResult.err # "" /\ DecodeResult.nc = None)
        /\ DictDecoded[UNKNOWN_KEY] # None =>
              /\ DecodeResult.err = ""
              /\ DecodeResult =
                    v1_proto_from_dictionary([DictDecoded EXCEPT ![UNKNOWN_KEY] = None])
C16_Witness ==
    /\ nc_pc = "decoded_mangled"
    /\ DictDecoded[TIMESTAMP] = None
    /\ DecodeResult.err = "missing timestamp"
    /\ DecodeResult.nc = None

\* C17: the encoder writes TYPE "0" for a private configuration and "1" for
\* a public one; the decoder reads TYPE "0" as private and TYPE "1" as
\* public, so that the private flag survives encoding followed by decoding.
C17_TypeInverse ==
    /\ nc_pc = "encoded" =>
          Unwrap(dict)[TYPE] = Some(IF CfgEncoded.private THEN "0" ELSE "1")
    /\ (decoded # None /\ DecodeResult.err = "") =>
          /\ DictDecoded[TYPE] = Some("0") => CfgDecoded.private = TRUE
          /\ DictDecoded[TYPE] = Some("1") => CfgDecoded.private = FALSE
    /\ nc_pc = "decoded" => CfgDecoded.private = CfgEncoded.private

\* The key of each collection of a configuration, and whether it is empty.
CollectionKeys == {ROUTES, STATIC_IPS, RULES, DNS, CERTIFICATES_OF_OWNERSHIP, TAGS}
CollectionEmpty(c, key) ==
    CASE key = ROUTES -> c.routes = {}
      [] key = STATIC_IPS -> c.static_ips = {}
      [] key = RULES -> c.rules = <<>>
      [] key = DNS -> c.dns = {}
      [] key = CERTIFICATES_OF_OWNERSHIP -> c.certificates_of_ownership = <<>>
      [] key = TAGS -> c.tags = {}
SsoStringEmpty(c, key) == c.sso = None \/ SsoField(c, key) = Some("")
TypeAndSsoEnabledPresent ==
    /\ Unwrap(dict)[TYPE] # None
    /\ Unwrap(dict)[SSO_ENABLED] = Some(IF CfgEncoded.sso # None THEN "1" ELSE "0")

\* C18 as stated: in a dictionary the encoder made, the key of a string
\* field or of a collection is present only if the field is not empty (name,
\* central URL, the SSO strings, the collections), and TYPE and SSO_ENABLED
\* are always present, SSO_ENABLED true exactly when there is an SSO block.
C18_OmitIfEmpty ==
    nc_pc = "encoded" =>
        /\ Unwrap(dict)[NAME] # None => CfgEncoded.name # ""
        /\ Unwrap(dict)[CENTRAL_URL] # None => CfgEncoded.central_url # ""
        /\ \A key \in SsoStringKeys :
              Unwrap(dict)[key] # None => ~SsoStringEmpty(CfgEncoded, key)
        /\ \A key \in CollectionKeys :
              Unwrap(dict)[key] # None => ~CollectionEmpty(CfgEncoded, key)
        /\ TypeAndSsoEnabledPresent

\* C18 amended: the keys of the name, of the central URL and of the
\* collections are present exactly when the field is not empty; the keys of
\* the SSO strings are present exactly when there is an SSO block, empty
\* strings included; TYPE and SSO_ENABLED are always present, SSO_ENABLED
\* true exactly when there is an SSO block.
C18_OmitIfEmptyExceptSso ==
    nc_pc = "encoded" =>
        /\ Unwrap(dict)[NAME] # None <=> CfgEncoded.name # ""
        /\ Unwrap(dict)[CENTRAL_URL] # None <=> CfgEncoded.central_url # ""
        /\ \A key \in SsoStringKeys :
              Unwrap(dict)[key] # None <=> CfgEncoded.sso # None
        /\ \A key \in CollectionKeys :
              Unwrap(dict)[key] # None <=> ~CollectionEmpty(CfgEncoded, key)
        /\ TypeAndSsoEnabledPresent
C18_Witness ==
    /\ nc_pc = "encoded"
    /\ CfgEncoded.sso = Some(EmptySso)
    /\ CfgEncoded.name = ""
    /\ Unwrap(dict)[SSO_NONCE] = Some("")
    /\ Unwrap(dict)[NAME] = None

\* The DNS value the decoder was given.
DnsValue == Unwrap(DictDecoded[DNS])
\* name is the bytes of the first 128 bytes of blob up to the first zero.
IsPrefixUpToZero(name, blob) ==
    /\ Len(name) <= 128
    /\ \A i \in 1..Len(name) : blob[i] = name[i] /\ name[i] # 0
    /\ Len(name) < 128 => blob[Len(name) + 1] = 0

\* C19: a DNS value whose length is not strictly between 128 and 1024 bytes
\* decodes to no DNS entry and is no error; one of a length in between
\* decodes to at most one entry, named by the bytes of the 128-byte prefix up
\* to the first zero byte.
C19_DnsBlobBounds ==
    (decoded # None /\ DictDecoded[DNS] # None) =>
        /\ DecodeResult.err =
              v1_proto_from_dictionary([DictDecoded EXCEPT ![DNS] = None]).err
        /\ (DecodeResult.err = "" /\ ~(128 < Len(DnsValue) /\ Len(DnsValue) < 1024)) =>
              CfgDecoded.dns = {}
        /\ (DecodeResult.err = "" /\ 128 < Len(DnsValue) /\ Len(DnsValue) < 1024) =>
              /\ Cardinality(CfgDecoded.dns) <= 1
              /\ \A e \in CfgDecoded.dns : IsPrefixUpToZero(e.name, DnsValue)
C19_Witness ==
    /\ nc_pc = "decoded_mangled"
    /\ DictDecoded[DNS] # None
    /\ Len(DnsValue) = 1024
    /\ DecodeResult.err = ""
    /\ CfgDecoded.dns = {}

(***************************************************************************)
(* Claims about send and send_hello.                                       *)
(***************************************************************************)
\* C21: a call of send produces a packet sealed under AES-GMAC-SIV and hands
\* it to the wire, and receive on the peer of the matching identity
\* authenticates that packet and hands the handler the original payload.
C21_SendProducesPacket ==
    op_out.op = "send" =>
        /\ op_out.outcome = "returned"
        /\ tx_calls # <<>>

\* C22: a send_hello call that has an endpoint (given, or of the peer's best
\* path, or of the root's best path) runs to completion: it draws one packet
\* id, builds one HELLO and transmits it through send_udp, so that a
\* wire_send call to the endpoint follows.
C22_SendHelloCompletes ==
    (op_out.op = "send_hello" /\ IsSome(op_out.ret)) =>
        /\ op_out.outcome = "returned"
        /\ Len(iv_log) >= 1
        /\ tx_calls # <<>>

(***************************************************************************)
(* Claims about what receive does with an authenticated packet.            *)
(***************************************************************************)
RxAuthenticated == RxCalled /\ rx_out.outcome = "authenticated"
RxHandlers == [i \in 1..Len(rx_out.calls) |-> rx_out.calls[i].handler]
\* The verb of the authenticated payload, less the flag bits.
RxMaskedVerb == BitAnd(ByteValue(rx_out.payload[1]), VERB_MASK)

\* C23: an authenticated packet is offered to the higher-layer handler
\* exactly once; only if that handler declines, the built-in handler of the
\* verb byte masked with VERB_MASK is called, so that a HELLO with the HMAC
\* flag reaches receive_hello; NOP and unknown verbs reach no built-in one.
C23_DispatchByMaskedVerb ==
    RxAuthenticated =>
        /\ Len(RxHandlers) >= 1
        /\ RxHandlers[1] = "handle_packet"
        /\ rx_in.ph_consumes => Len(RxHandlers) = 1
        /\ (~rx_in.ph_consumes /\ Len(rx_out.payload) >= 1) =>
              RxHandlers = IF Vl1Handler(RxMaskedVerb) = "none"
                           THEN << "handle_packet" >>
                           ELSE << "handle_packet", Vl1Handler(RxMaskedVerb) >>

\* The call dispatched an authenticated OK in reply to a HELLO to receive_ok.
RxOkHelloProcessed ==
    /\ RxAuthenticated
    /\ Len(rx_out.payload) >= 2
    /\ ByteValue(rx_out.payload[1]) = VERB_VL1_OK
    /\ ByteValue(rx_out.payload[2]) = VERB_VL1_HELLO
    /\ Len(RxHandlers) = 2
    /\ RxHandlers[2] = "receive_ok"

\* C24: processing an authenticated OK(HELLO) installs the derived secret in
\* the ephemeral-secret slot, which is the only way the slot is filled.
C24_OkHelloInstallsEphemeral ==
    RxOkHelloProcessed => IsSome(ephemeral_secret)

\* The bytes of the packet after its header as they came over the wire: those
\* of the head buffer and of the trailing fragments, in slice order.
RxWireBytes == AppendFragments(RxFrag0.bytes, rx_in.fragments, 1)
\* The tag a sender makes of those bytes when it keys Salsa with size.
RxSenderTag(secret, size) ==
    PolyFinish(PolyUpdate(salsa_poly_create(secret, rx_in.header, size).poly, RxWireBytes))
\* The packet came as a head and trailing fragments, all present and whole,
\* in one of the Poly1305 modes, and carries the tag a holder of the static
\* secret gives the whole packet, keyed with its total size.
RxFragmentedSealedWithTotalSize ==
    /\ RxCalled
    /\ HeaderCipher(rx_in.header) \in {CIPHER_NOCRYPT_POLY1305, CIPHER_SALSA2012_POLY1305}
    /\ RxFrag0.ok
    /\ Len(RxFrag0.bytes) >= 1
    /\ HeaderCipher(rx_in.header) = CIPHER_NOCRYPT_POLY1305 => IsHelloVerb(RxFrag0.bytes[1])
    /\ Len(rx_in.fragments) >= 1
    /\ \A i \in 1..Len(rx_in.fragments) :
          FragmentPayload(rx_in.fragments, i).ok
          /\ Len(FragmentPayload(rx_in.fragments, i).bytes) >= 1
    /\ rx_in.header.message_auth = RxSenderTag(static_secret, RxPacketSize)

\* C25: a fragmented packet in a Poly1305 mode whose tag the sender keyed with
\* the total packet size authenticates under the static secret.
C25_FragmentedAuthenticates ==
    RxFragmentedSealedWithTotalSize =>
        /\ RxAuthenticated
        /\ rx_out.secret = Some(static_secret)

(***************************************************************************)
(* salsa_derive_per_packet_key (peer.rs 125-135) on its own: called on any *)
(* secret, header and packet size, twice, to compare the two keys.        *)
(***************************************************************************)
KdKeys == { StaticKey, EphemeralKey }
KdHeaders ==
    [id : {7, 8}, dest : {LocalAddress, PeerAddress}, src : {LocalAddress, PeerAddress},
     flags_cipher_hops : [cipher : {CIPHER_NOCRYPT_POLY1305, CIPHER_SALSA2012_POLY1305},
                          hops : {0, 1}],
     message_auth : {[k |-> NoKey, data |-> <<>>]}]
\* Sizes that differ in the low byte, in the second byte, and above bit 15.
KdSizes == { 28, 29, 28 + 256, 28 + 65536 }

\* One call: the arguments, the key returned, and the key argument as it is
\* after the call (the code works on a clone, peer.rs 127).
KdCall(key, header, packet_size) ==
    [key |-> key, header |-> header, packet_size |-> packet_size,
     ret |-> salsa_derive_per_packet_key(key, header, packet_size),
     key_after |-> key]

\* A first call, and a second one to compare it with.
DeriveKey ==
    /\ rx_out.outcome = "none"
    /\ op_out.op = "none"
    /\ kd = <<>>
    /\ \E key \in KdKeys, header \in KdHeaders, packet_size \in KdSizes :
          kd' = << KdCall(key, header, packet_size) >>
    /\ UNCHANGED <<time_vars, peer_vars, rx_vars, iv_vars, tx_vars, path_vars, stat_vars, op_out,
                   rx_menu, slot_vars, cfg_vars, lock_vars>>
DeriveKeyAgain ==
    /\ Len(kd) = 1
    /\ \E key \in KdKeys, header \in KdHeaders, packet_size \in KdSizes :
          kd' = << kd[1], KdCall(key, header, packet_size) >>
    /\ UNCHANGED <<time_vars, peer_vars, rx_vars, iv_vars, tx_vars, path_vars, stat_vars, op_out,
                   rx_menu, slot_vars, cfg_vars, lock_vars>>
\* Both keys are dropped.
DropKeys ==
    /\ Len(kd) = 2
    /\ kd' = <<>>
    /\ UNCHANGED <<time_vars, peer_vars, rx_vars, iv_vars, tx_vars, path_vars, stat_vars, op_out,
                   rx_menu, slot_vars, cfg_vars, lock_vars>>

KeyInit ==
    /\ PeerInit
    /\ ExtIdle
    /\ rx_in = RxNoInput
    /\ rx_out = RxNoOutput
    /\ IvIdle
    /\ TxIdle

KeyNext ==
    \/ DeriveKey
    \/ DeriveKeyAgain
    \/ DropKeys

SpecKey == KeyInit /\ [][KeyNext]_vars

\* Two calls were made with the same secret.
KdPair == Len(kd) = 2 /\ kd[1].key = kd[2].key
\* The two calls agree on what the key is made of: the packet id, the
\* destination, the source, the flags bits other than the hop count, and the
\* low 16 bits of the packet size.
KdSameKeyMaterial ==
    /\ kd[1].header.id = kd[2].header.id
    /\ kd[1].header.dest = kd[2].header.dest
    /\ kd[1].header.src = kd[2].header.src
    /\ kd[1].header.flags_cipher_hops.cipher = kd[2].header.flags_cipher_hops.cipher
    /\ kd[1].packet_size % 65536 = kd[2].packet_size % 65536

\* C26: for one secret, salsa_derive_per_packet_key gives the same key for
\* two headers that differ only in the hop count, and different keys as soon
\* as the packet id, the destination, the source, the other flags bits or the
\* low 16 bits of the packet size differ; the secret passed in is unchanged.
C26_KeyIgnoresHopsOnly ==
    /\ \A i \in 1..Len(kd) : kd[i].key_after = kd[i].key
    /\ KdPair => (kd[1].ret = kd[2].ret <=> KdSameKeyMaterial)

\* Two headers that differ in the hop count only, same secret and size.
C26_Witness ==
    /\ KdPair
    /\ KdSameKeyMaterial
    /\ kd[1].packet_size = kd[2].packet_size
    /\ kd[1].header.flags_cipher_hops.hops # kd[2].header.flags_cipher_hops.hops
    /\ kd[1].ret = kd[2].ret

(***************************************************************************)
(* More properties of Peer::send_udp.                                      *)
(***************************************************************************)
\* The number of bytes of the packet that wire_send call i carries.
TxChunkLen(i) == tx_calls[i].to - tx_calls[i].from

\* C27: for a packet larger than the MTU, the wire_send calls of one send_udp
\* are, in order, the head and fragments 1, 2, ...; the head is the first MTU
\* bytes of the packet, each fragment carries after its header the next
\* min(remaining, MTU - FragmentHeaderSize) bytes, no chunk is empty, and the
\* chunks in the order sent are the packet, without gap, overlap or a byte
\* beyond its end.
C27_ChunksTileThePacket ==
    (TxCalled /\ tx_in.size > UDP_DEFAULT_MTU) =>
        /\ tx_calls[1].header = None
        /\ tx_calls[1].from = 0
        /\ tx_calls[1].to = UDP_DEFAULT_MTU
        /\ \A i \in 2..Len(tx_calls) :
              /\ IsSome(tx_calls[i].header)
              /\ Unwrap(tx_calls[i].header).total_and_fragment_no % 16 = i - 1
              /\ tx_calls[i].from = tx_calls[i - 1].to
              /\ TxChunkLen(i) >= 1
              /\ TxChunkLen(i) <= UDP_DEFAULT_MTU - FRAGMENT_HEADER_SIZE
              /\ TxChunkLen(i) = UDP_DEFAULT_MTU - FRAGMENT_HEADER_SIZE
                    \/ tx_calls[i].to = tx_in.size
              /\ tx_calls[i].to <= tx_in.size
        /\ TxAllSucceeded => tx_calls[Len(tx_calls)].to = tx_in.size

\* A packet one byte longer than the head and two full fragments: the last
\* fragment carries that byte.
C27_Witness ==
    /\ TxCalled
    /\ TxAllSucceeded
    /\ tx_in.size = UDP_DEFAULT_MTU + 2 * (UDP_DEFAULT_MTU - FRAGMENT_HEADER_SIZE) + 1
    /\ Len(tx_calls) = 4
    /\ TxChunkLen(2) = UDP_DEFAULT_MTU - FRAGMENT_HEADER_SIZE
    /\ TxChunkLen(4) = 1

(***************************************************************************)
(* More properties of Peer::receive.                                       *)
(***************************************************************************)
\* The call found the ephemeral slot empty, and its packet gets as far as an
\* authentication attempt and fails it under the static secret.
RxNoEphemeralAndStaticFails ==
    /\ RxCalled
    /\ rx_out.old_ephemeral = None
    /\ RxFrag0.ok
    /\ Trial(static_secret, rx_in.header, rx_in.packet, rx_in.fragments, RxFrag0.bytes,
             <<>>).kind = "fail"

\* C28 as stated: with no ephemeral secret the loop makes two authentication
\* attempts under the static secret before it drops the packet.
C28_TwoAttemptsUnderStatic ==
    RxNoEphemeralAndStaticFails =>
        /\ rx_out.outcome = "dropped"
        /\ rx_out.trials = 2

\* C28: with no ephemeral secret the loop makes one authentication attempt,
\* under the static secret, and drops a packet that fails it at once: no
\* second attempt, no handler, no counter changed.
C28_OneAttemptUnderStatic ==
    RxNoEphemeralAndStaticFails =>
        /\ rx_out.outcome = "dropped"
        /\ rx_out.trials = 1
        /\ rx_out.calls = <<>>
        /\ RxCountersUnchanged

\* A SALSA20/12-POLY1305 packet sealed under a secret the peer does not have.
C28_Witness ==
    /\ RxNoEphemeralAndStaticFails
    /\ HeaderCipher(rx_in.header) = CIPHER_SALSA2012_POLY1305
    /\ rx_in.header.message_auth.k.secret = ForeignKey
    /\ rx_out.trials = 1

\* What the bytes of the packet after its header are under the given secret
\* once the cipher of the packet is taken off them.
RxPlainUnder(secret) ==
    CASE HeaderCipher(rx_in.header) = CIPHER_SALSA2012_POLY1305 ->
            StreamCrypt(salsa_poly_create(secret, rx_in.header, BufLen(rx_in.packet)).salsa,
                        RxWireBytes)
      [] HeaderCipher(rx_in.header) = CIPHER_AES_GMAC_SIV ->
            StreamCrypt([k |-> SivKey(secret, aad_bytes(rx_in.header)), pos |-> 0],
                        RxWireBytes)
      [] OTHER -> RxWireBytes

PeerMutexes ==
    { "static_secret_hello_dictionary", "ephemeral_secret", "ephemeral_pair", "paths",
      "reported_local_ip" }

\* The mutex the lock() at a position takes, and where the thread is then.
LkLockSites ==
    { "receive: lock 209", "best_path: lock 310", "send_hello: lock 390",
      "send_hello: lock 436", "send_hello: lock 462" }
LkMutexAt(pc) ==
    CASE pc = "receive: lock 209" -> "ephemeral_secret"
      [] pc = "best_path: lock 310" -> "paths"
      [] pc = "send_hello: lock 390" -> "paths"
      [] pc = "send_hello: lock 436" -> "ephemeral_pair"
      [] pc = "send_hello: lock 462" -> "static_secret_hello_dictionary"
LkLocked(pc) ==
    CASE pc = "receive: lock 209" -> "receive: clone 209"
      [] pc = "best_path: lock 310" -> "best_path: last 310"
      [] pc = "send_hello: lock 390" -> "send_hello: last 390"
      [] pc = "send_hello: lock 436" -> "send_hello: map 436"
      [] pc = "send_hello: lock 462" -> "send_hello: init 463"

\* Where the guard taken at a lock site goes out of scope: at the end of the
\* statement for the temporaries of lines 209, 310 (390) and 436; the guard
\* of line 462 when the slice of line 463 panics on the empty packet and the
\* stack is unwound. The position the thread is at then.
LkHoldSites == { LkLocked(pc) : pc \in LkLockSites }
LkHeldAt(pc) == LkMutexAt(CHOOSE site \in LkLockSites : LkLocked(site) = pc)
LkUnlocked(pc) ==
    CASE pc = "receive: clone 209" -> "receive: trials 210"
      [] pc = "best_path: last 310" -> "idle"
      [] pc = "send_hello: last 390" -> "send_hello: build 399"
      [] pc = "send_hello: map 436" -> "send_hello: lock 462"
      [] pc = "send_hello: init 463" -> "idle"

\* The positions at which a thread is in a call of a packet handler
\* (peer.rs 289-301) or of wire_send (send_udp, reached from no position).
LkCallsOut(pc) == pc = "receive: handlers 289"

\* A faulty variant of GuardDropped: the guard stays alive.
GuardKept(held, m) == held

\* The guard of mutex m is dropped.
GuardDropped(held, m) == held \ {m}

MutexFree(m) == \A t \in Threads : m \notin lk_held[t]

\* A thread calls receive, best_path, or send_hello without or with an
\* endpoint.
LkCall ==
    /\ \E t \in Threads :
          /\ lk_pc[t] = "idle"
          /\ \E pc \in { "receive: lock 209", "best_path: lock 310", "send_hello: lock 390",
                         "send_hello: build 399" } :
                lk_pc' = [lk_pc EXCEPT ![t] = pc]
    /\ UNCHANGED lk_held
    /\ UNCHANGED <<time_vars, peer_vars, rx_vars, iv_vars, tx_vars, path_vars, stat_vars, op_out,
                   rx_menu, slot_vars, cfg_vars, key_vars>>

\* lock(): the thread goes on once nobody holds the mutex.
LkAcquire ==
    /\ \E t \in Threads :
          /\ lk_pc[t] \in LkLockSites
          /\ MutexFree(LkMutexAt(lk_pc[t]))
          /\ lk_held' = [lk_held EXCEPT ![t] = @ \cup {LkMutexAt(lk_pc[t])}]
          /\ lk_pc' = [lk_pc EXCEPT ![t] = LkLocked(@)]
    /\ UNCHANGED <<time_vars, peer_vars, rx_vars, iv_vars, tx_vars, path_vars, stat_vars, op_out,
                   rx_menu, slot_vars, cfg_vars, key_vars>>

\* The statement that holds the guard is over.
LkRelease ==
    /\ \E t \in Threads :
          /\ lk_pc[t] \in LkHoldSites
          /\ lk_held' = [lk_held EXCEPT ![t] = GuardDropped(@, LkHeldAt(lk_pc[t]))]
          /\ lk_pc' = [lk_pc EXCEPT ![t] = LkUnlocked(@)]
    /\ UNCHANGED <<time_vars, peer_vars, rx_vars, iv_vars, tx_vars, path_vars, stat_vars, op_out,
                   rx_menu, slot_vars, cfg_vars, key_vars>>

\* peer.rs 210-277, 286: the trials end in a return, or the payload goes to
\* the handlers.
LkTrials ==
    /\ \E t \in Threads :
          /\ lk_pc[t] = "receive: trials 210"
          /\ \E pc \in { "idle", "receive: handlers 289" } :
                lk_pc' = [lk_pc EXCEPT ![t] = pc]
    /\ UNCHANGED lk_held
    /\ UNCHANGED <<time_vars, peer_vars, rx_vars, iv_vars, tx_vars, path_vars, stat_vars, op_out,
                   rx_menu, slot_vars, cfg_vars, key_vars>>

\* peer.rs 289-303: the handlers return, and so does receive.
LkHandlersReturn ==
    /\ \E t \in Threads :
          /\ lk_pc[t] = "receive: handlers 289"
          /\ lk_pc' = [lk_pc EXCEPT ![t] = "idle"]
    /\ UNCHANGED lk_held
    /\ UNCHANGED <<time_vars, peer_vars, rx_vars, iv_vars, tx_vars, path_vars, stat_vars, op_out,
                   rx_menu, slot_vars, cfg_vars, key_vars>>

\* peer.rs 399-435: send_hello panics at the unwrap of line 399 (no path) or
\* at the todo!() of line 425 (debug assertions on), or goes on to line 436
\* with an empty packet (debug assertions off).
LkBuild ==
    /\ \E t \in Threads :
          /\ lk_pc[t] = "send_hello: build 399"
          /\ \E pc \in { "idle", "send_hello: lock 436" } :
                lk_pc' = [lk_pc EXCEPT ![t] = pc]
    /\ UNCHANGED lk_held
    /\ UNCHANGED <<time_vars, peer_vars, rx_vars, iv_vars, tx_vars, path_vars, stat_vars, op_out,
                   rx_menu, slot_vars, cfg_vars, key_vars>>

LockInit ==
    /\ PeerInit
    /\ op_out = NoOp
    /\ rx_menu = "all"
    /\ SlotIdle
    /\ CfgIdle
    /\ KeyIdle
    /\ lk_pc = [t \in Threads |-> "idle"]
    /\ lk_held = [t \in Threads |-> {}]
    /\ TimeIdle
    /\ rx_in = RxNoInput
    /\ rx_out = RxNoOutput
    /\ IvIdle
    /\ TxIdle

LockNext ==
    \/ LkCall
    \/ LkAcquire
    \/ LkRelease
    \/ LkTrials
    \/ LkHandlersReturn
    \/ LkBuild

SpecLock == LockInit /\ [][LockNext]_vars

\* The thread can take its next step: it is in a call and not waiting for a
\* mutex that another thread holds.
LkCanStep(t) ==
    /\ lk_pc[t] # "idle"
    /\ lk_pc[t] \in LkLockSites => MutexFree(LkMutexAt(lk_pc[t]))

\* C30: no thread in receive, send_hello or best_path holds two of the peer's
\* mutexes at a time, and none is in a handler or in wire_send while it holds
\* one; so the calls cannot deadlock: whenever threads are in calls, one of
\* them can take a step, and whoever holds a mutex another thread waits for
\* is not itself waiting.
C30_OneMutexAtATimeNoDeadlock ==
    /\ \A t \in Threads :
          /\ lk_held[t] \subseteq PeerMutexes
          /\ Cardinality(lk_held[t]) <= 1
          /\ LkCallsOut(lk_pc[t]) => lk_held[t] = {}
          /\ lk_held[t] # {} => LkCanStep(t)
          /\ lk_pc[t] = "idle" => lk_held[t] = {}
    /\ \A t, u \in Threads : t # u => lk_held[t] \cap lk_held[u] = {}
    /\ (\E t \in Threads : lk_pc[t] # "idle") => \E t \in Threads : LkCanStep(t)

\* One thread is inside best_path holding paths, another waits for paths in
\* send_hello, a third is in a handler.
C30_Witness ==
    /\ \E t \in Threads : lk_pc[t] = "best_path: last 310" /\ lk_held[t] = {"paths"}
    /\ \E t \in Threads : lk_pc[t] = "send_hello: lock 390" /\ ~LkCanStep(t)
    /\ \E t \in Threads : lk_pc[t] = "receive: handlers 289"

(***************************************************************************)
(* Threads in Peer::receive on one peer, followed statement by statement   *)
(* through the stores of peer.rs 283-284. Each caller reads the clock and  *)
(* passes what it read as time_ticks; the clock never goes back.           *)
(***************************************************************************)
RtIdle == [t \in Receivers |-> "idle"]
RtNoArg == [time_ticks |-> 0, size |-> 0]

\* Time passes.
RtTick ==
    /\ rt_clock < MaxTime
    /\ rt_clock' = rt_clock + 1
    /\ UNCHANGED <<rt_pc, rt_arg, rt_latest>>
    /\ UNCHANGED <<peer_vars, rx_vars, iv_vars, tx_vars, path_vars, stat_vars, op_out,
                   rx_menu, slot_vars, cfg_vars, key_vars, lock_vars>>

\* A thread reads the clock and calls receive with a packet; peer.rs 204-277
\* either return or leave the loop with the packet authenticated.
RtCall ==
    /\ total_bytes_received <= MaxTotalBytes
    /\ \E t \in Receivers, ch \in RxMenu("salsa") :
       \E r \in {ReceiveResult(ephemeral_secret, static_secret, last_receive_time_ticks,
                               total_bytes_received, RxInput(ch, rt_clock, FALSE))} :
          /\ rt_pc[t] = "idle"
          /\ IF r.outcome = "authenticated"
             THEN /\ rt_pc' = [rt_pc EXCEPT ![t] = "store 283"]
                  /\ rt_arg' = [rt_arg EXCEPT ![t] = [time_ticks |-> rt_clock,
                                                      size |-> ReceivedSize(r.payload)]]
                  /\ rt_latest' = IF rt_clock > rt_latest THEN rt_clock ELSE rt_latest
             ELSE UNCHANGED <<rt_pc, rt_arg, rt_latest>>
    /\ UNCHANGED rt_clock
    /\ UNCHANGED <<peer_vars, rx_vars, iv_vars, tx_vars, path_vars, stat_vars, op_out,
                   rx_menu, slot_vars, cfg_vars, key_vars, lock_vars>>

\* peer.rs 283: self.last_receive_time_ticks.store(time_ticks, Relaxed)
RtStore ==
    /\ \E t \in Receivers :
          /\ rt_pc[t] = "store 283"
          /\ last_receive_time_ticks' = rt_arg[t].time_ticks
          /\ rt_pc' = [rt_pc EXCEPT ![t] = "fetch_add 284"]
    /\ UNCHANGED <<rt_clock, rt_arg, rt_latest>>
    /\ UNCHANGED <<static_secret, ephemeral_secret, total_bytes_received, rx_vars, iv_vars,
                   tx_vars, path_vars, stat_vars, op_out, rx_menu, slot_vars, cfg_vars,
                   key_vars, lock_vars>>

\* peer.rs 284-303: total_bytes_received.fetch_add, the handlers, return.
RtFetchAdd ==
    /\ \E t \in Receivers :
          /\ rt_pc[t] = "fetch_add 284"
          /\ total_bytes_received' = FetchAdd(total_bytes_received, rt_arg[t].size)
          /\ rt_pc' = [rt_pc EXCEPT ![t] = "idle"]
          /\ rt_arg' = [rt_arg EXCEPT ![t] = RtNoArg]
    /\ UNCHANGED <<rt_clock, rt_latest>>
    /\ UNCHANGED <<static_secret, ephemeral_secret, last_receive_time_ticks, rx_vars,
                   iv_vars, tx_vars, path_vars, stat_vars, op_out, rx_menu, slot_vars,
                   cfg_vars, key_vars, lock_vars>>

TimeInit ==
    /\ PeerInit
    /\ op_out = NoOp
    /\ rx_menu = "all"
    /\ SlotIdle
    /\ CfgIdle
    /\ KeyIdle
    /\ LockIdle
    /\ rt_clock = 1
    /\ rt_pc = RtIdle
    /\ rt_arg = [t \in Receivers |-> RtNoArg]
    /\ rt_latest = 0
    /\ rx_in = RxNoInput
    /\ rx_out = RxNoOutput
    /\ IvIdle
    /\ TxIdle

TimeNext ==
    \/ RtTick
    \/ RtCall
    \/ RtStore
    \/ RtFetchAdd

SpecTime == TimeInit /\ [][TimeNext]_vars

\* C31: with threads in receive concurrently, each given a time no earlier
\* than the one given to the call before it, last_receive_time_ticks never
\* decreases, and once all of them have returned it is the latest time given
\* to a receive that authenticated its packet.
C31_LastReceiveTimeMonotonic ==
    /\ []((rt_pc = RtIdle /\ rt_latest > 0) => last_receive_time_ticks = rt_latest)
    /\ [][last_receive_time_ticks' >= last_receive_time_ticks]_vars

(***************************************************************************)
(* More properties of Peer::send_hello.                                    *)
(***************************************************************************)
\* send_hello was called with no endpoint while the peer had no path and the
\* node no root with a path.
HelloWithNowhereToSend ==
    /\ op_out.op = "send_hello"
    /\ op_out.try_new_endpoint = None
    /\ op_out.old_paths = <<>>
    /\ op_out.root_path = None

\* C32: send_hello called with no endpoint, when the peer has no path and the
\* node has no root with a path, returns normally and sends nothing: no
\* wire_send call and no panic.
C32_HelloWithoutPathReturns ==
    HelloWithNowhereToSend =>
        /\ op_out.outcome = "returned"
        /\ tx_calls = <<>>

====
